---- MODULE Spec2Model ----
(***************************************************************************)
(* MASCOT: the cache-file pipeline that turns a workspace of ActionScript  *)
(* projects into a project dependency graph and per-project build lists.   *)
(*                                                                         *)
(* The state is the workspace on disk and the cache directory              *)
(* (projects.json, classes.json, deps.json, tasks.json, problems.log),     *)
(* and the files the emitters write into each project (asconfig.json,      *)
(* .vscode/settings.json, .vscode/tasks.json).                             *)
(* Each exported stage function is one action that reads its input files   *)
(* and writes its output file, as the code does.                           *)
(*                                                                         *)
(* Strings are sequences of one-character strings, so that endsWith,       *)
(* lastIndexOf, split and join are computed and not assumed.               *)
(***************************************************************************)
EXTENDS Integers, Sequences, FiniteSets, TLC

VARIABLES
    dirs,      \* directories that exist in the workspace (project homes)
    files,     \* source files on disk: path -> the names it imports and instantiates
    cache,     \* names of the cache files that exist
    projects,  \* content of projects.json
    classes,   \* content of classes.json
    deps,      \* content of deps.json
    tasks,     \* content of tasks.json
    problems,  \* content of problems.log, one entry per element
    asconfig,     \* the asconfig.json files on disk: project home -> content
    vscSettings,  \* the .vscode/settings.json files on disk: project home -> content
    vscTasks,     \* the .vscode/tasks.json files on disk: project home -> content
    inputData, \* the settings the command line was given, when the stages run from it
    call,      \* the last stage invoked, its arguments and how it ended
    before     \* classes.json, tasks.json and problems.log as they were when that stage started

vars == <<dirs, files, cache, projects, classes, deps, tasks, problems,
         asconfig, vscSettings, vscTasks, inputData, call, before>>

----------------------------------------------------------------------------
(* Bounds of the model. *)

NumProjects == 3      \* projects in the catalog
MaxEdges == 3         \* dependency edges in an initial deps.json
MaxSources == 3       \* class files in an initial workspace
MaxCalls == 3         \* stage invocations in one behaviour
MaxEntries == 3       \* files in an initial workspace of the shallow scan
MaxTaskCalls == 4     \* stage invocations in one behaviour of the task emitter
MaxStageCalls == 4    \* stage invocations in one behaviour over an unscanned workspace

\* The engine's call-stack limit, in frames of one recursive helper. Any
\* traversal of an acyclic graph needs at most one frame per project.
StackLimit == NumProjects + 2

----------------------------------------------------------------------------
(* Strings and paths. *)

Min(S) == CHOOSE x \in S : \A y \in S : x <= y

\* Array.prototype.includes
Includes(s, x) == \E i \in 1..Len(s) : s[i] = x

\* if (!list.includes(x)) list.push(x)
Push(list, x) == IF Includes(list, x) THEN list ELSE Append(list, x)

\* String.prototype.endsWith
EndsWith(s, suffix) ==
    /\ Len(suffix) <= Len(s)
    /\ SubSeq(s, Len(s) - Len(suffix) + 1, Len(s)) = suffix

\* String.prototype.lastIndexOf for a one-character needle (1-based, 0 when absent)
LastIndexOf(s, c) ==
    LET I == {i \in 1..Len(s) : s[i] = c}
    IN IF I = {} THEN 0 ELSE CHOOSE i \in I : \A j \in I : j <= i

\* str.replace(/\./g, "/") and friends: every occurrence of one character
ReplaceAll(s, c, d) == [i \in 1..Len(s) |-> IF s[i] = c THEN d ELSE s[i]]

\* path.join(a, b) for already normalised operands
Join(a, b) == a \o <<"/">> \o b

Src == <<"s", "r", "c">>
DotAs == <<".", "a", "s">>
NULL == <<>>          \* JavaScript null / undefined for a string-valued field

DirNames == <<"p", "q", "r", "s", "t", "u">>
WorkspaceDir == <<"/", "w">>
Home(i) == Join(WorkspaceDir, <<DirNames[i]>>)
Homes == {Home(i) : i \in 1..NumProjects}
\* A path under the workspace at which nothing exists.
Nowhere == Join(WorkspaceDir, <<"n">>)

\* Sequences without repetition over S, of length at most n.
DistinctSeqs(S, n) ==
    UNION {{s \in [1..k -> S] : \A i, j \in 1..k : i # j => s[i] # s[j]} : k \in 0..n}

----------------------------------------------------------------------------
(* problems.log entries. *)

Problem(kind, subject) == [kind |-> kind, subject |-> subject, where |-> NULL]
ProblemAt(kind, subject, where) == [kind |-> kind, subject |-> subject, where |-> where]

\* The record of a stage invocation: n counts the invocations so far, repeat
\* the consecutive invocations of this stage, amendments is the list last
\* given to manuallyAddDependencies, and args holds the arguments of an
\* emitter.
Call(stage, outcome, amendments) ==
    [stage |-> stage, outcome |-> outcome, amendments |-> amendments, n |-> call.n + 1,
     repeat |-> IF call.stage = stage THEN call.repeat + 1 ELSE 1,
     limit |-> call.limit, args |-> <<>>]

\* No command line: the stages are called through the module's exports
NoInput == <<>>

\* Before the first invocation; limit is the number of invocations the
\* behaviour may make.
NoCall == [stage |-> "", outcome |-> "", amendments |-> <<>>, n |-> 0, repeat |-> 0,
           limit |-> MaxCalls, args |-> <<>>]

Snapshot == [classes |-> classes, tasks |-> tasks, problems |-> problems]

----------------------------------------------------------------------------
(* deps.json *)

\* A node of a project without root classes
Node(projectPath, dependencies) ==
    [project_path |-> projectPath,
     project_dependencies |-> dependencies,
     num_dependencies |-> Len(dependencies),
     root_classes |-> <<>>]

\* Array.prototype.find on deps.json: index of the first entry for projectPath
FindNode(d, projectPath) ==
    LET I == {i \in 1..Len(d) : d[i].project_path = projectPath}
    IN IF I = {} THEN 0 ELSE Min(I)

\* sort((a, b) => a.num_dependencies - b.num_dependencies): stable, ascending
RECURSIVE SortFrom(_, _, _)
SortFrom(nodes, k, most) ==
    IF k > most THEN <<>>
    ELSE SelectSeq(nodes, LAMBDA n : n.num_dependencies = k) \o SortFrom(nodes, k + 1, most)

SortByNumDependencies(nodes) ==
    LET most == IF nodes = <<>> THEN 0
                ELSE CHOOSE m \in {nodes[i].num_dependencies : i \in 1..Len(nodes)} :
                         \A i \in 1..Len(nodes) : nodes[i].num_dependencies <= m
    IN SortFrom(nodes, 0, most)

----------------------------------------------------------------------------
(* classes.json: doDeepScan *)

\* fs.existsSync
OnDisk(path) == path \in dirs \/ path \in DOMAIN files

splitQualifiedName(fullName) ==
    LET lastDotIndex == LastIndexOf(fullName, ".")
    IN IF lastDotIndex = 0 THEN <<NULL, fullName>>
       ELSE <<SubSeq(fullName, 1, lastDotIndex - 1),
              SubSeq(fullName, lastDotIndex + 1, Len(fullName))>>

packageToRelPath(packageName, className) ==
    IF packageName # NULL
    THEN ReplaceAll(packageName, ".", "/") \o <<"/">> \o className \o DotAs
    ELSE className \o DotAs

relPathToPackageName(relPath) ==
    LET k == LastIndexOf(relPath, "/")
    IN IF k = 0 THEN NULL ELSE ReplaceAll(SubSeq(relPath, 1, k - 1), "/", ".")

\* str.split(".")[0]
BeforeFirstDot(str) ==
    LET I == {i \in 1..Len(str) : str[i] = "."}
    IN IF I = {} THEN str ELSE SubSeq(str, 1, Min(I) - 1)

Coupling(name, package, relPath, type, project, classFile, exists) ==
    [name |-> name, package |-> package, expected_relative_path |-> relPath,
     coupling_type |-> type, matching_project |-> project,
     expected_class_file |-> classFile, class_exists |-> exists]

\* projectFilesMap, in the order Object.entries walks it: one entry per project
\* of the catalog, with the absolute paths of its class files
ProjectFilesMap(projs) ==
    [i \in 1..Len(projs) |->
        [projectDir |-> projs[i].project_home_dir,
         classFiles |-> [k \in 1..Len(projs[i].classFiles) |->
                            Join(Join(projs[i].project_home_dir, Src),
                                 projs[i].classFiles[k])]]]

\* Does entry e of projectFilesMap settle the coupling: one of its files ends
\* with the expected relative path, and that path exists under its src?
\* Variant: a suffix match alone settles the coupling.
SettlesBySuffix(e, inferredRelativePath) ==
    \E k \in 1..Len(e.classFiles) : EndsWith(e.classFiles[k], inferredRelativePath)

Settles(e, inferredRelativePath) ==
    /\ \E k \in 1..Len(e.classFiles) : EndsWith(e.classFiles[k], inferredRelativePath)
    /\ OnDisk(Join(Join(e.projectDir, Src), inferredRelativePath))

\* Variant: the loop runs to the end and the last match wins.
LastHit(projectFilesMap, inferredRelativePath) ==
    LET hits == {i \in 1..Len(projectFilesMap) :
                    Settles(projectFilesMap[i], inferredRelativePath)}
    IN IF hits = {} THEN 0 ELSE CHOOSE i \in hits : \A j \in hits : j <= i

\* for (... of Object.entries(projectFilesMap)) with its break: the index of the
\* entry the loop stops at, or 0 when it runs to the end
FirstHit(projectFilesMap, inferredRelativePath) ==
    LET hits == {i \in 1..Len(projectFilesMap) :
                    Settles(projectFilesMap[i], inferredRelativePath)}
    IN IF hits = {} THEN 0 ELSE Min(hits)

\* resolveDependency: the coupling pushed and the problems pushed with it
resolveDependency(projectFilesMap, packageName, className, couplingType, parentClassPath) ==
    LET inferredRelativePath == packageToRelPath(packageName, className)
        hit == FirstHit(projectFilesMap, inferredRelativePath)
    IN IF hit # 0
       THEN [coupling |-> Coupling(className, packageName, inferredRelativePath,
                                   couplingType, projectFilesMap[hit].projectDir,
                                   Join(Join(projectFilesMap[hit].projectDir, Src),
                                        inferredRelativePath),
                                   TRUE),
             probs |-> <<>>]
       ELSE [coupling |-> Coupling(className, packageName, inferredRelativePath,
                                   couplingType, NULL, NULL, FALSE),
             probs |-> <<ProblemAt(IF packageName # NULL THEN "Unresolved dependency"
                                   ELSE "Unresolved global dependency",
                                   IF packageName # NULL
                                   THEN packageName \o <<".">> \o className
                                   ELSE className,
                                   parentClassPath)>>]

\* The first capture group of /new\s+(...)\.(...)/g on "new <qualified>": the
\* text before the last dot, which is all the forEach callback destructures
Instantiation(qualified) == SubSeq(qualified, 1, LastIndexOf(qualified, ".") - 1)

\* imports.forEach(...) and instantiations.forEach(...) from the i-th match on
RECURSIVE resolveEach(_, _, _, _, _, _)
resolveEach(projectFilesMap, matches, i, couplingType, filePath, acc) ==
    IF i > Len(matches) THEN acc
    ELSE LET q == splitQualifiedName(matches[i])
             r == resolveDependency(projectFilesMap, q[1], q[2], couplingType, filePath)
         IN resolveEach(projectFilesMap, matches, i + 1, couplingType, filePath,
                        [couplings |-> Append(acc.couplings, r.coupling),
                         probs |-> acc.probs \o r.probs])

AnalyzedClass(filePath, projectDir, couplings) ==
    [analyzed_class |-> [file_path |-> filePath, project_dir |-> projectDir],
     class_couplings |-> couplings]

\* The class files of the catalog in scan order, as <<project index, file index>>
RECURSIVE ScanOrder(_, _, _)
ScanOrder(projs, i, k) ==
    IF i > Len(projs) THEN <<>>
    ELSE IF k > Len(projs[i].classFiles) THEN ScanOrder(projs, i + 1, 1)
    ELSE <<(<<i, k>>)>> \o ScanOrder(projs, i, k + 1)

\* project.classFiles.forEach(...) over the whole catalog, from position n on
RECURSIVE analyzeFrom(_, _, _, _)
analyzeFrom(projs, order, n, acc) ==
    IF n > Len(order) THEN acc
    ELSE LET proj == projs[order[n][1]]
             filePath == Join(Join(proj.project_home_dir, Src),
                              proj.classFiles[order[n][2]])
         IN IF filePath \notin DOMAIN files
            THEN \* readFileSync throws: the class is skipped and logged
                 analyzeFrom(projs, order, n + 1,
                     [classes |-> acc.classes,
                      probs |-> Append(acc.probs,
                                       ProblemAt("Failed to analyze class", NULL, filePath))])
            ELSE LET news == files[filePath].instantiations
                     m == resolveEach(ProjectFilesMap(projs), files[filePath].imports,
                                      1, "import", filePath,
                                      [couplings |-> <<>>, probs |-> acc.probs])
                     r == resolveEach(ProjectFilesMap(projs),
                                      [k \in 1..Len(news) |-> Instantiation(news[k])],
                                      1, "fqn_instantiation", filePath, m)
                 IN analyzeFrom(projs, order, n + 1,
                     [classes |-> Append(acc.classes,
                                         AnalyzedClass(filePath, proj.project_home_dir,
                                                       r.couplings)),
                      probs |-> r.probs])

DoDeepScan(replace) ==
    LET outcome == IF "projects.json" \notin cache THEN "missing input"
                   ELSE IF "classes.json" \in cache /\ ~replace THEN "skipped"
                   ELSE "returned"
        out == analyzeFrom(projects, ScanOrder(projects, 1, 1), 1,
                           [classes |-> <<>>, probs |-> <<>>])
    IN /\ call.n < call.limit
       /\ call' = Call("doDeepScan", outcome, call.amendments)
       /\ before' = Snapshot
       /\ IF outcome = "returned"
          THEN /\ cache' = cache \cup {"classes.json"}
               /\ classes' = out.classes
               /\ problems' = problems \o out.probs
          ELSE UNCHANGED <<cache, classes, problems>>
       /\ UNCHANGED <<asconfig, vscSettings, vscTasks, dirs, files, inputData, projects, deps, tasks>>

----------------------------------------------------------------------------
(* classes.json: manuallyAddDependencies *)

\* path.normalize on a POSIX path: runs of separators collapse to one
RECURSIVE Normalize(_)
Normalize(path) ==
    IF Len(path) < 2 THEN path
    ELSE IF path[1] = "/" /\ path[2] = "/" THEN Normalize(Tail(path))
    ELSE <<path[1]>> \o Normalize(Tail(path))

\* The entries isOnDisk, hasItems and hasValue push
NotOnDisk(path) == ProblemAt("cannot locate on disk", NULL, path)
BadArray(arrName) == ProblemAt("bad or empty Array " \o arrName, NULL, NULL)
NoValue(valName) == ProblemAt("missing expected " \o valName, NULL, NULL)

\* Array.prototype.find on projects.json: index of the entry for home, or 0
FindProject(projs, home) ==
    LET I == {i \in 1..Len(projs) : projs[i].project_home_dir = home}
    IN IF I = {} THEN 0 ELSE Min(I)

\* classes.find(entry => entry.analyzed_class.file_path.endsWith(projectClass))
FindClassEntry(cls, projectClass) ==
    LET I == {i \in 1..Len(cls) : EndsWith(cls[i].analyzed_class.file_path, projectClass)}
    IN IF I = {} THEN 0 ELSE Min(I)

\* The body of dependencies.forEach for one dependency: classes.json and the
\* problems as it leaves them.
applyDependency(projs, projectClass, dependencyProject, acc) ==
    IF ~OnDisk(dependencyProject)
    THEN [acc EXCEPT !.probs = Append(@, NotOnDisk(dependencyProject))]
    ELSE LET d == FindProject(projs, Normalize(dependencyProject)) IN
    IF d = 0
    THEN [acc EXCEPT !.probs = Append(@, NoValue("depProjectEntry"))]
    ELSE IF projs[d].classFiles = <<>>
    THEN [acc EXCEPT !.probs = Append(@, BadArray("depProjectEntry.classFiles"))]
    ELSE LET depProjectClass == projs[d].classFiles[1]
             c == FindClassEntry(acc.classes, projectClass)
             expected_class_file ==
                 Normalize(Join(Join(projs[d].project_home_dir, Src), depProjectClass))
             package == relPathToPackageName(depProjectClass)
             name == IF package # NULL THEN splitQualifiedName(package)[2]
                     ELSE BeforeFirstDot(depProjectClass)
         IN
    IF c = 0
    THEN [acc EXCEPT !.probs = Append(@, NoValue("projectClassEntry"))]
    ELSE IF ~OnDisk(expected_class_file)
    THEN [acc EXCEPT !.probs = Append(@, NotOnDisk(expected_class_file))]
    ELSE [acc EXCEPT !.classes[c].class_couplings =
              <<Coupling(name, package, depProjectClass, "patch",
                         projs[d].project_home_dir, expected_class_file, TRUE)>> \o @]

\* dependencies.forEach(...) from the i-th dependency on
RECURSIVE applyDependencies(_, _, _, _, _)

\* Variant: the first dependency that cannot be applied ends the record.
applyDependenciesUntilInvalid(projs, projectClass, dependencies, i, acc) ==
    IF i > Len(dependencies) THEN acc
    ELSE LET next == applyDependency(projs, projectClass, dependencies[i], acc)
         IN IF next.classes = acc.classes THEN next
            ELSE applyDependencies(projs, projectClass, dependencies, i + 1, next)

applyDependencies(projs, projectClass, dependencies, i, acc) ==
    IF i > Len(dependencies) THEN acc
    ELSE applyDependencies(projs, projectClass, dependencies, i + 1,
                           applyDependency(projs, projectClass, dependencies[i], acc))

\* The body of amendments.forEach for one record
applyAmendment(projs, record, acc) ==
    IF ~OnDisk(record.project)
    THEN [acc EXCEPT !.probs = Append(@, NotOnDisk(record.project))]
    ELSE IF record.dependencies = <<>>
    THEN [acc EXCEPT !.probs = Append(@, BadArray("dependencies"))]
    ELSE LET e == FindProject(projs, Normalize(record.project)) IN
    IF e = 0
    THEN [acc EXCEPT !.probs = Append(@, NoValue("projectEntry"))]
    ELSE IF projs[e].classFiles = <<>>
    THEN [acc EXCEPT !.probs = Append(@, BadArray("projectEntry.classFiles"))]
    ELSE applyDependencies(projs, projs[e].classFiles[1], record.dependencies, 1, acc)

\* amendments.forEach(...) from the i-th record on
RECURSIVE applyAmendments(_, _, _, _)
applyAmendments(projs, amendments, i, acc) ==
    IF i > Len(amendments) THEN acc
    ELSE applyAmendments(projs, amendments, i + 1,
                         applyAmendment(projs, amendments[i], acc))

ManuallyAddDependencies(amendments) ==
    LET present == {"projects.json", "classes.json"} \subseteq cache
        out == applyAmendments(projects, amendments, 1,
                               [classes |-> classes, probs |-> <<>>])
    IN /\ call.n < call.limit
       /\ call' = Call("manuallyAddDependencies",
                       IF present THEN "returned" ELSE "missing input", amendments)
       /\ before' = Snapshot
       /\ IF present
          THEN /\ classes' = out.classes
               /\ problems' = problems \o out.probs
          ELSE /\ problems' = Append(problems,
                       Problem(IF "projects.json" \notin cache
                               THEN "cannot locate projects.json on disk"
                               ELSE "cannot locate classes.json on disk", NULL))
               /\ UNCHANGED classes
       /\ UNCHANGED <<asconfig, vscSettings, vscTasks, dirs, files, inputData, cache, projects, deps, tasks>>

----------------------------------------------------------------------------
(* deps.json: buildDependencies *)

\* Variant: without the comparison with projectPath.
AddsEdgeToSelf(coupling, projectPath) ==
    /\ coupling.class_exists
    /\ coupling.matching_project # NULL

\* Is the coupling one that adds an edge from projectPath?
AddsEdge(coupling, projectPath) ==
    /\ coupling.class_exists
    /\ coupling.matching_project # NULL
    /\ coupling.matching_project # projectPath

\* class_couplings.filter(...).forEach(...) from the i-th coupling on
RECURSIVE addDependencies(_, _, _, _)

\* Variant: the dependency is pushed whether or not the list includes it.
addDependenciesAgain(couplings, i, projectPath, list) ==
    IF i > Len(couplings) THEN list
    ELSE addDependencies(couplings, i + 1, projectPath,
                         IF AddsEdge(couplings[i], projectPath)
                         THEN Append(list, couplings[i].matching_project)
                         ELSE list)

addDependencies(couplings, i, projectPath, list) ==
    IF i > Len(couplings) THEN list
    ELSE addDependencies(couplings, i + 1, projectPath,
                         IF AddsEdge(couplings[i], projectPath)
                         THEN Push(list, couplings[i].matching_project)
                         ELSE list)

\* classes.forEach(...) from the i-th entry on; nodes are kept in the order
\* their keys were first set on projectDependencies
\* The root classes of a new node: the related classes of the project's
\* descriptors
rootClasses(projs, projectPath) ==
    LET k == FindProject(projs, projectPath)
    IN IF k # 0 /\ projs[k].has_descriptor
       THEN [j \in 1..Len(projs[k].known_descriptors) |->
                projs[k].known_descriptors[j].related_class]
       ELSE <<>>

RECURSIVE foldClasses(_, _, _, _)
foldClasses(projs, cls, i, nodes) ==
    IF i > Len(cls) THEN nodes
    ELSE LET projectPath == cls[i].analyzed_class.project_dir
             k == FindNode(nodes, projectPath)
             known == IF k = 0
                      THEN Append(nodes, [Node(projectPath, <<>>) EXCEPT
                                             !.root_classes = rootClasses(projs, projectPath)])
                      ELSE nodes
             at == FindNode(known, projectPath)
             list == addDependencies(cls[i].class_couplings, 1, projectPath,
                                     known[at].project_dependencies)
         IN foldClasses(projs, cls, i + 1,
                        [known EXCEPT ![at].project_dependencies = list,
                                      ![at].num_dependencies = Len(list)])

\* deps.json as written at the end: the nodes sorted by num_dependencies
BuiltFrom(cls) == SortByNumDependencies(foldClasses(projects, cls, 1, <<>>))

\* Variant: an existing deps.json is deleted and rebuilt whatever replace says.
BuildDependenciesAnew(replace) ==
    LET outcome == IF ~({"classes.json", "projects.json"} \subseteq cache)
                   THEN "missing input"
                   ELSE "returned"
    IN /\ call.n < call.limit
       /\ call' = Call("buildDependencies", outcome, call.amendments)
       /\ before' = Snapshot
       /\ CASE outcome = "missing input" ->
                 /\ problems' = Append(problems, Problem("required input files not found", NULL))
                 /\ UNCHANGED <<cache, deps>>
            [] outcome = "returned" ->
                 /\ cache' = cache \cup {"deps.json"}
                 /\ deps' = BuiltFrom(classes)
                 /\ UNCHANGED problems
       /\ UNCHANGED <<asconfig, vscSettings, vscTasks, dirs, files, inputData, projects, classes, tasks>>

BuildDependencies(replace) ==
    LET outcome == IF ~({"classes.json", "projects.json"} \subseteq cache)
                   THEN "missing input"
                   ELSE IF "deps.json" \in cache /\ ~replace THEN "skipped"
                   ELSE "returned"
    IN /\ call.n < call.limit
       /\ call' = Call("buildDependencies", outcome, call.amendments)
       /\ before' = Snapshot
       /\ CASE outcome = "missing input" ->
                 /\ problems' = Append(problems, Problem("required input files not found", NULL))
                 /\ UNCHANGED <<cache, deps>>
            [] outcome = "skipped" ->
                 UNCHANGED <<cache, deps, problems>>
            [] outcome = "returned" ->
                 /\ cache' = cache \cup {"deps.json"}
                 /\ deps' = BuiltFrom(classes)
                 /\ UNCHANGED problems
       /\ UNCHANGED <<asconfig, vscSettings, vscTasks, dirs, files, inputData, projects, classes, tasks>>

----------------------------------------------------------------------------
(* tasks.json: makeBuildTasks *)

Task(projectPath, list) ==
    [project_path |-> projectPath, project_build_tasks |-> list, num_tasks |-> Len(list)]

\* The running state of one makeBuildTasks call: the list being collected, the
\* problems pushed so far, and whether the engine has thrown RangeError.
Walk(collected, probs, thrown) ==
    [collected |-> collected, probs |-> probs, thrown |-> thrown]

RECURSIVE collectDependencies(_, _, _, _)
RECURSIVE collectEach(_, _, _, _, _)

\* Variant: the project is pushed before its dependencies are walked.
collectDependenciesPreOrder(d, projectPath, st, depth) ==
    IF depth > StackLimit THEN [st EXCEPT !.thrown = TRUE]
    ELSE LET k == FindNode(d, projectPath) IN
         IF k = 0
         THEN [st EXCEPT !.probs =
                   Append(@, Problem("Missing dependency information", projectPath))]
         ELSE collectEach(d, d[k].project_dependencies, 1,
                          [st EXCEPT !.collected = Push(@, projectPath)], depth)

\* One call of collectDependencies(projectPath, collected) at stack depth `depth`.
collectDependencies(d, projectPath, st, depth) ==
    IF depth > StackLimit THEN [st EXCEPT !.thrown = TRUE]
    ELSE LET k == FindNode(d, projectPath) IN
         IF k = 0
         THEN [st EXCEPT !.probs =
                   Append(@, Problem("Missing dependency information", projectPath))]
         ELSE LET s1 == collectEach(d, d[k].project_dependencies, 1, st, depth) IN
              IF s1.thrown THEN s1
              ELSE [s1 EXCEPT !.collected = Push(@, projectPath)]

\* project_dependencies.forEach(...) from its i-th element on
collectEach(d, list, i, st, depth) ==
    IF i > Len(list) \/ st.thrown THEN st
    ELSE LET s1 == collectDependencies(d, list[i], st, depth + 1)
             s2 == IF s1.thrown THEN s1
                   ELSE [s1 EXCEPT !.collected = Push(@, list[i])]
         IN collectEach(d, list, i + 1, s2, depth)

\* deps.forEach(...) from its i-th entry on; `out` holds the tasks pushed so far.
RECURSIVE buildTasksFrom(_, _, _)
buildTasksFrom(d, i, out) ==
    IF i > Len(d) \/ out.thrown THEN out
    ELSE LET st == collectDependencies(d, d[i].project_path,
                                       Walk(<<>>, out.probs, FALSE), 1)
         IN buildTasksFrom(d, i + 1,
              [tasks |-> IF st.thrown THEN out.tasks
                         ELSE Append(out.tasks, Task(d[i].project_path, st.collected)),
               probs |-> st.probs,
               thrown |-> st.thrown])

MakeBuildTasks(replace) ==
    LET out == buildTasksFrom(deps, 1, [tasks |-> <<>>, probs |-> <<>>, thrown |-> FALSE])
        outcome == IF "deps.json" \notin cache THEN "missing input"
                   ELSE IF "tasks.json" \in cache /\ ~replace THEN "skipped"
                   ELSE IF out.thrown THEN "RangeError"
                   ELSE "returned"
    IN /\ call.n < call.limit
       /\ call' = Call("makeBuildTasks", outcome, call.amendments)
       /\ before' = Snapshot
       /\ CASE outcome = "missing input" ->
                 /\ problems' = Append(problems, Problem("deps.json is missing", NULL))
                 /\ UNCHANGED <<cache, tasks>>
            [] outcome = "skipped" ->
                 UNCHANGED <<cache, tasks, problems>>
            [] outcome = "RangeError" ->
                 \* tasks.json was unlinked before the traversal started
                 /\ cache' = cache \ {"tasks.json"}
                 /\ tasks' = <<>>
                 /\ UNCHANGED problems
            [] outcome = "returned" ->
                 /\ cache' = cache \cup {"tasks.json"}
                 /\ tasks' = out.tasks
                 /\ problems' = problems \o out.probs
       /\ UNCHANGED <<asconfig, vscSettings, vscTasks, dirs, files, inputData, projects, classes, deps>>

----------------------------------------------------------------------------
(* tasks.json: applyDirtinessFilter *)

\* obj[key] for an object used as a map: undefined keys read as falsy
Truthy(map, key) == key \in DOMAIN map /\ map[key]

MarkDirty(map, key) == [k \in DOMAIN map \cup {key} |-> IF k = key THEN TRUE ELSE map[k]]

\* What isProjectDirty hands back: its value (null, true or false), the memo as
\* it has left it, and whether the engine has thrown RangeError.
Probe(isNull, value, memo, thrown) ==
    [isNull |-> isNull, value |-> value, memo |-> memo, thrown |-> thrown]

RECURSIVE isProjectDirty(_, _, _, _)
RECURSIVE someDirty(_, _, _, _, _)

isProjectDirty(dirtyCache, depsMap, projectPath, depth) ==
    IF depth > StackLimit THEN Probe(FALSE, FALSE, dirtyCache, TRUE)
    ELSE IF projectPath \notin DOMAIN depsMap THEN Probe(TRUE, FALSE, dirtyCache, FALSE)
    ELSE IF Truthy(dirtyCache, projectPath) THEN Probe(FALSE, TRUE, dirtyCache, FALSE)
    ELSE IF depsMap[projectPath].num_dependencies = 0
         THEN Probe(FALSE, FALSE, dirtyCache, FALSE)
    ELSE LET r == someDirty(dirtyCache, depsMap,
                            depsMap[projectPath].project_dependencies, 1, depth)
         IN IF r.thrown THEN r
            ELSE IF r.value /\ ~Truthy(r.memo, projectPath)
                 THEN Probe(FALSE, TRUE, MarkDirty(r.memo, projectPath), FALSE)
                 ELSE Probe(FALSE, r.value, r.memo, FALSE)

\* project_dependencies.some(...) from its i-th element on: stops at the first
\* truthy answer
someDirty(dirtyCache, depsMap, list, i, depth) ==
    IF i > Len(list) THEN Probe(FALSE, FALSE, dirtyCache, FALSE)
    ELSE LET r == isProjectDirty(dirtyCache, depsMap, list[i], depth + 1)
         IN IF r.thrown THEN r
            ELSE IF ~r.isNull /\ r.value THEN Probe(FALSE, TRUE, r.memo, FALSE)
            ELSE someDirty(r.memo, depsMap, list, i + 1, depth)

\* dirtyCache as applyDirtinessFilter seeds it from projects.json
SeedDirtyCache(projs) ==
    [h \in {projs[i].project_home_dir : i \in 1..Len(projs)} |->
        projs[Min({i \in 1..Len(projs) : projs[i].project_home_dir = h})].is_dirty]

\* depsMap: the first entry of deps.json for each project path
DepsMap(d) ==
    [h \in {d[i].project_path : i \in 1..Len(d)} |-> d[FindNode(d, h)]]

\* Variant: the entries are removed in place with splice while the list is
\* walked, so the entry after a removed one is passed over unexamined.
RECURSIVE filterSplicing(_, _, _, _, _)
filterSplicing(list, i, kept, memo, depsMap) ==
    IF i > Len(list) THEN [kept |-> kept, memo |-> memo, thrown |-> FALSE]
    ELSE LET r == isProjectDirty(memo, depsMap, list[i], 1)
         IN IF r.thrown THEN [kept |-> kept, memo |-> r.memo, thrown |-> TRUE]
            ELSE IF ~r.isNull /\ r.value
                 THEN filterSplicing(list, i + 1, Append(kept, list[i]), r.memo, depsMap)
            ELSE IF i < Len(list)
                 THEN filterSplicing(list, i + 2, Append(kept, list[i + 1]), r.memo, depsMap)
            ELSE filterSplicing(list, i + 1, kept, r.memo, depsMap)

\* project_build_tasks.filter(...) from its i-th element on
RECURSIVE filterFrom(_, _, _, _, _)
filterFrom(list, i, kept, memo, depsMap) ==
    IF i > Len(list) THEN [kept |-> kept, memo |-> memo, thrown |-> FALSE]
    ELSE LET r == isProjectDirty(memo, depsMap, list[i], 1)
         IN IF r.thrown THEN [kept |-> kept, memo |-> r.memo, thrown |-> TRUE]
            ELSE filterFrom(list, i + 1,
                            IF ~r.isNull /\ r.value THEN Append(kept, list[i]) ELSE kept,
                            r.memo, depsMap)

\* tasks.forEach(...) from its i-th entry on
RECURSIVE filterTasksFrom(_, _, _, _, _)
filterTasksFrom(t, i, out, memo, depsMap) ==
    IF i > Len(t) THEN [tasks |-> out, thrown |-> FALSE]
    ELSE LET f == filterFrom(t[i].project_build_tasks, 1, <<>>, memo, depsMap)
         IN IF f.thrown THEN [tasks |-> out, thrown |-> TRUE]
            ELSE filterTasksFrom(t, i + 1,
                                 Append(out, Task(t[i].project_path, f.kept)),
                                 f.memo, depsMap)

ApplyDirtinessFilter ==
    LET out == filterTasksFrom(tasks, 1, <<>>, SeedDirtyCache(projects), DepsMap(deps))
        outcome == IF ~({"projects.json", "deps.json", "tasks.json"} \subseteq cache)
                   THEN "missing input"
                   ELSE IF out.thrown THEN "RangeError"
                   ELSE "returned"
    IN /\ call.n < call.limit
       /\ call' = Call("applyDirtinessFilter", outcome, call.amendments)
       /\ before' = Snapshot
       /\ CASE outcome = "missing input" ->
                 /\ problems' = Append(problems, Problem("required input files not found", NULL))
                 /\ UNCHANGED tasks
            [] outcome = "RangeError" ->
                 UNCHANGED <<tasks, problems>>
            [] outcome = "returned" ->
                 /\ tasks' = out.tasks
                 /\ UNCHANGED problems
       /\ UNCHANGED <<asconfig, vscSettings, vscTasks, dirs, files, inputData, cache, projects, classes, deps>>

----------------------------------------------------------------------------
(* projects.json: doShallowScan *)

Max(a, b) == IF a >= b THEN a ELSE b

\* String.prototype.startsWith
StartsWith(s, prefix) ==
    /\ Len(prefix) <= Len(s)
    /\ SubSeq(s, 1, Len(prefix)) = prefix

\* path.basename(p)
BaseName(p) == SubSeq(p, LastIndexOf(p, "/") + 1, Len(p))

\* path.basename(name, ext)
WithoutExt(name, ext) ==
    IF EndsWith(name, ext) /\ name # ext THEN SubSeq(name, 1, Len(name) - Len(ext)) ELSE name

\* path.relative(from, to) for a path to below the directory from
Relative(from, to) == SubSeq(to, Len(from) + 2, Len(to))

Bin == <<"b", "i", "n">>
Lib == <<"l", "i", "b">>
DotMxml == <<".", "m", "x", "m", "l">>
DotFxg == <<".", "f", "x", "g">>
DotSwf == <<".", "s", "w", "f">>
DotSwc == <<".", "s", "w", "c">>
AppXml == <<"-", "a", "p", "p", ".", "x", "m", "l">>

\* The entry names of the workspaces, in the order readdirSync lists the
\* entries of a directory.
NameOrder ==
    << <<".", "v", "s", "c", "o", "d", "e">>, <<"A">> \o DotAs, <<"M">> \o AppXml, <<"M">> \o DotAs,
       <<"M", "a", "i", "n">> \o DotAs, <<"Z">> \o AppXml,
       <<"a">>, Bin, <<"k">>, Lib, <<"l", "o", "g", "o", ".", "p", "n", "g">>,
       <<"m">>, <<"m">> \o AppXml,
       <<"p">>, <<"q">>, <<"r">>, <<"s">>, Src, <<"x">> \o DotSwc, <<"x">> \o DotSwf >>

\* fs.readdirSync(dir): the entries of dir by name; entry.isDirectory()
readdir(dir) == SelectSeq(NameOrder, LAMBDA name : OnDisk(Join(dir, name)))
isDirectory(path) == path \in dirs

\* collectFiles(folder) from the i-th item of the folder on
RECURSIVE collectFiles(_, _, _, _)
collectFiles(srcPath, folder, i, acc) ==
    LET items == readdir(folder)
    IN IF i > Len(items) THEN acc
       ELSE LET itemName == items[i]
                fullPath == Join(folder, itemName)
                className == BeforeFirstDot(itemName)
            IN collectFiles(srcPath, folder, i + 1,
                   IF isDirectory(fullPath) THEN collectFiles(srcPath, fullPath, 1, acc)
                   ELSE IF \/ EndsWith(itemName, DotAs)
                           \/ EndsWith(itemName, DotMxml)
                           \/ EndsWith(itemName, DotFxg)
                   THEN [acc EXCEPT !.classNames = Push(@, className),
                                    !.classFiles = Append(@, Relative(srcPath, fullPath)),
                                    !.codeTimestamp = Max(@, files[fullPath].mtime)]
                   ELSE [acc EXCEPT !.assetFiles = Append(@, Relative(srcPath, fullPath))])

\* classFiles.find((relFilePath) => relFilePath.startsWith(name)): the index
\* of the first hit, 0 for undefined
FindClassFile(classFiles, name) ==
    LET I == {i \in 1..Len(classFiles) : StartsWith(classFiles[i], name)}
    IN IF I = {} THEN 0 ELSE Min(I)

\* The callback of descriptorFiles.map for one entry; entry.path is the
\* directory the entry was read from. path.join throws a TypeError for an
\* argument that is not a string: for relativeClassPath when find found
\* nothing.
DescriptorInfo(srcPath, entryName, classFiles) ==
    LET name == WithoutExt(entryName, AppXml)
        hit == FindClassFile(classFiles, name)
    IN IF hit = 0 THEN [threw |-> TRUE]
       ELSE [threw |-> FALSE,
             name |-> name,
             fileName |-> entryName,
             filePath |-> Join(srcPath, entryName),
             relativeClassPath |-> classFiles[hit],
             related_class |-> [file_path |-> Join(srcPath, classFiles[hit]),
                                package |-> relPathToPackageName(classFiles[hit])]]

\* Variant: every descriptor with a related class file is kept, whatever its
\* name.
knownDescriptorsOfAnyName(srcPath, classFiles, classNames) ==
    LET descriptorFiles ==
            SelectSeq(readdir(srcPath),
                      LAMBDA name : ~isDirectory(Join(srcPath, name)) /\ EndsWith(name, AppXml))
        mapped == [k \in 1..Len(descriptorFiles) |->
                      DescriptorInfo(srcPath, descriptorFiles[k], classFiles)]
    IN IF \E k \in 1..Len(mapped) : mapped[k].threw THEN [threw |-> TRUE, list |-> <<>>]
       ELSE [threw |-> FALSE, list |-> mapped]

\* descriptorFiles.map(...).filter(...): the descriptors whose name is one of
\* the collected class names, or the exception of the map step
knownDescriptors(srcPath, classFiles, classNames) ==
    LET descriptorFiles ==
            SelectSeq(readdir(srcPath),
                      LAMBDA name : ~isDirectory(Join(srcPath, name)) /\ EndsWith(name, AppXml))
        mapped == [k \in 1..Len(descriptorFiles) |->
                      DescriptorInfo(srcPath, descriptorFiles[k], classFiles)]
    IN IF \E k \in 1..Len(mapped) : mapped[k].threw THEN [threw |-> TRUE, list |-> <<>>]
       ELSE [threw |-> FALSE,
             list |-> SelectSeq(mapped, LAMBDA d : Includes(classNames, d.name))]

\* The binaries of a project: the .swf and .swc files of its bin folder
Binaries(dir) ==
    IF ~isDirectory(Join(dir, Bin)) THEN <<>>
    ELSE SelectSeq(readdir(Join(dir, Bin)),
                   LAMBDA name : /\ ~isDirectory(Join(Join(dir, Bin), name))
                                 /\ (EndsWith(name, DotSwf) \/ EndsWith(name, DotSwc)))

RECURSIVE binaryTimestamp(_, _, _)
binaryTimestamp(dir, binaries, i) ==
    IF i > Len(binaries) THEN 0
    ELSE Max(files[Join(Join(dir, Bin), binaries[i])].mtime, binaryTimestamp(dir, binaries, i + 1))

\* scanDir(dir): dir is tested for being a project, and its record or a
\* problem is pushed
scanDir(dir, acc) ==
    LET srcPath == Join(dir, Src)
        nestedSrcs == SelectSeq(readdir(srcPath),
                                LAMBDA name : /\ isDirectory(Join(srcPath, name))
                                              /\ OnDisk(Join(Join(srcPath, name), Src)))
        collected == collectFiles(srcPath, srcPath, 1,
                                  [classFiles |-> <<>>, assetFiles |-> <<>>,
                                   classNames |-> <<>>, codeTimestamp |-> 0])
        known == knownDescriptors(srcPath, collected.classFiles, collected.classNames)
        binaries == Binaries(dir)
        hasAppBinary == \E k \in 1..Len(binaries) : EndsWith(binaries[k], DotSwf)
        binaryTime == binaryTimestamp(dir, binaries, 1)
        hasLibDir == /\ isDirectory(Join(dir, Lib))
                     /\ \E k \in 1..Len(readdir(Join(dir, Lib))) :
                            EndsWith(readdir(Join(dir, Lib))[k], DotSwc)
    IN IF acc.threw \/ ~isDirectory(srcPath) THEN acc
       ELSE IF nestedSrcs # <<>>
       THEN [acc EXCEPT !.problems = Append(@, Problem("Nested project detected", srcPath))]
       ELSE IF known.threw THEN [acc EXCEPT !.threw = TRUE]
       ELSE [acc EXCEPT !.projects = Append(@,
                [project_name |-> BaseName(dir),
                 project_home_dir |-> dir,
                 has_descriptor |-> known.list # <<>>,
                 known_descriptors |-> known.list,
                 has_lib_dir |-> hasLibDir,
                 has_binaries |-> binaries # <<>>,
                 has_app_binary |-> hasAppBinary,
                 classFiles |-> collected.classFiles,
                 assetFiles |-> collected.assetFiles,
                 code_timestamp |-> collected.codeTimestamp,
                 binary_timestamp |-> binaryTime,
                 is_dirty |-> collected.codeTimestamp > binaryTime,
                 is_app_probability |-> IF known.list # <<>> \/ hasAppBinary THEN 1 ELSE 0])]

\* The variant of traverse that leaves a rejected or accepted candidate
\* without walking the directories below it.
RECURSIVE traverseOutsideCandidates(_, _, _)
traverseOutsideCandidates(dir, i, acc) ==
    LET entries == readdir(dir)
    IN IF acc.threw \/ i > Len(entries) THEN acc
       ELSE LET subDir == Join(dir, entries[i])
            IN traverseOutsideCandidates(dir, i + 1,
                   IF ~isDirectory(subDir) THEN acc
                   ELSE IF isDirectory(Join(subDir, Src)) THEN scanDir(subDir, acc)
                   ELSE traverseOutsideCandidates(subDir, 1, scanDir(subDir, acc)))

\* traverse(dir) from the i-th entry of dir on: every subdirectory is scanned
\* and then traversed
RECURSIVE traverse(_, _, _)
traverse(dir, i, acc) ==
    LET entries == readdir(dir)
    IN IF acc.threw \/ i > Len(entries) THEN acc
       ELSE LET subDir == Join(dir, entries[i])
            IN traverse(dir, i + 1,
                   IF ~isDirectory(subDir) THEN acc
                   ELSE traverse(subDir, 1, scanDir(subDir, acc)))

DoShallowScan(replace) ==
    LET out == traverse(WorkspaceDir, 1,
                        [projects |-> <<>>, problems |-> <<>>, threw |-> FALSE])
        outcome == IF "projects.json" \in cache /\ ~replace THEN "skipped"
                   ELSE IF out.threw THEN "TypeError"
                   ELSE "returned"
    IN /\ call.n < call.limit
       /\ call' = Call("doShallowScan", outcome, call.amendments)
       /\ before' = Snapshot
       /\ CASE outcome = "skipped" ->
                 UNCHANGED <<cache, projects, problems>>
            [] outcome = "TypeError" ->
                 \* projects.json was unlinked before the traversal started
                 /\ cache' = cache \ {"projects.json"}
                 /\ projects' = <<>>
                 /\ UNCHANGED problems
            [] outcome = "returned" ->
                 \* both files are written anew
                 /\ cache' = cache \cup {"projects.json"}
                 /\ projects' = out.projects
                 /\ problems' = out.problems
       /\ UNCHANGED <<asconfig, vscSettings, vscTasks, dirs, files, inputData, classes, deps, tasks>>

----------------------------------------------------------------------------
(* asconfig.json: writeConfig *)

\* An object is a function from its keys to their values; the keys of a
\* nested object are written with their path, as in "compilerOptions.debug".
\* A key whose value is undefined is kept apart, in undef.

\* defaultValues = { config_type: "air", ..., ...defaults }
DefaultValues(defaults) ==
    defaults @@ [config_type |-> "air", copy_assets |-> TRUE, bin_dir |-> Bin, src_dir |-> Src]

\* name.replace(/[^a-zA-Z0-9_-]/g, "_"), for the characters of the workspaces
sanitizeFileName(name) ==
    [i \in 1..Len(name) |-> IF name[i] \in {".", "/", " ", "$"} THEN "_" ELSE name[i]]

\* path.parse(p).name: the basename without its last extension
PathName(p) ==
    LET base == BaseName(p)
        k == LastIndexOf(base, ".")
    IN IF k <= 1 THEN base ELSE SubSeq(base, 1, k - 1)

\* const projectType = is_app_probability >= 0.5 ? "app" : "lib"
ProjectType(project) == IF 2 * project.is_app_probability >= 1 THEN "app" ELSE "lib"

\* deps.find((dep) => dep.project_path === projectPath) || {}, with the
\* defaults of the destructuring
ProjectDeps(d, projectPath) ==
    IF FindNode(d, projectPath) = 0
    THEN [root_classes |-> <<>>, project_dependencies |-> <<>>]
    ELSE d[FindNode(d, projectPath)]

\* asConfigOwn for one project; no workers are given
asConfigOwn(project, d, defaultValues) ==
    LET projectType == ProjectType(project)
        projectDeps == ProjectDeps(d, project.project_home_dir)
        root_classes == projectDeps.root_classes
        mainClass == IF root_classes # <<>> THEN PathName(root_classes[1].file_path)
                     ELSE <<"M", "a", "i", "n">>
        hasAppDescriptor == /\ projectType = "app"
                            /\ root_classes # <<>>
                            /\ "descriptor_file_path" \in DOMAIN root_classes[1]
        libraryPath ==
            (IF project.has_lib_dir THEN <<Lib>> ELSE <<>>) \o
            [k \in 1..Len(projectDeps.project_dependencies) |->
                Join(projectDeps.project_dependencies[k], defaultValues.bin_dir)]
        output == IF projectType = "lib"
                  THEN Join(defaultValues.bin_dir,
                            sanitizeFileName(project.project_name) \o DotSwc)
                  ELSE Join(defaultValues.bin_dir, mainClass \o DotSwf)
        hasDebug == "debug_mode" \in DOMAIN defaultValues
    IN [obj |->
            ("config" :> defaultValues.config_type) @@
            ("type" :> projectType) @@
            (IF projectType = "app" THEN "mainClass" :> mainClass ELSE <<>>) @@
            (IF hasAppDescriptor
             THEN "application" :> root_classes[1].descriptor_file_path ELSE <<>>) @@
            ("copySourcePathAssets" :> defaultValues.copy_assets) @@
            (IF hasDebug THEN "compilerOptions.debug" :> defaultValues.debug_mode ELSE <<>>) @@
            ("compilerOptions.library-path" :> libraryPath) @@
            ("compilerOptions.output" :> output) @@
            (IF projectType = "lib"
             THEN "compilerOptions.include-sources" :> <<defaultValues.src_dir>> ELSE <<>>) @@
            ("compilerOptions.source-path" :> <<defaultValues.src_dir>>),
        undef |->
            (IF projectType = "app" /\ ~hasAppDescriptor THEN {"application"} ELSE {}) \cup
            (IF hasDebug THEN {} ELSE {"compilerOptions.debug"})]

\* deepMergeData(asConfigInherited, asConfigOwn) as JSON.stringify writes it:
\* objects are merged key by key, and the own value wins where both have one.
\* undefinedWins tells whether an own key whose value is undefined overrides
\* the inherited value (the key is then left out of the JSON text) or leaves
\* it in place.
deepMergeData(inherited, own, undefinedWins) ==
    LET keys == (DOMAIN inherited \cup DOMAIN own.obj) \
                    (IF undefinedWins THEN own.undef ELSE {})
    IN [key \in keys |-> IF key \in DOMAIN own.obj THEN own.obj[key] ELSE inherited[key]]

\* projects.forEach(...) from the i-th project on
RECURSIVE writeConfigs(_, _, _)
writeConfigs(args, i, acc) ==
    IF i > Len(projects) THEN acc
    ELSE LET projectPath == projects[i].project_home_dir
             asConfig == deepMergeData(args.base,
                                       asConfigOwn(projects[i], deps,
                                                   DefaultValues(args.defaults)),
                                       args.undefinedWins)
         IN writeConfigs(args, i + 1,
                IF ~args.overwrite /\ projectPath \in DOMAIN asconfig THEN acc
                ELSE IF ~isDirectory(projectPath)
                THEN [acc EXCEPT !.probs = Append(@, Problem("Failed to write asconfig.json",
                                                             projectPath))]
                ELSE [acc EXCEPT !.written = (projectPath :> asConfig) @@ @])

\* base is {} for null; defaults is {} for null
WriteConfig(overwrite, defaults, base, undefinedWins) ==
    LET args == [overwrite |-> overwrite, defaults |-> defaults, base |-> base,
                 undefinedWins |-> undefinedWins]
        present == {"projects.json", "classes.json", "deps.json"} \subseteq cache
        out == writeConfigs(args, 1, [written |-> asconfig, probs |-> <<>>])
    IN /\ call.n < call.limit
       /\ call' = [Call("writeConfig", IF present THEN "returned" ELSE "missing input",
                        call.amendments) EXCEPT !.args = args]
       /\ before' = Snapshot
       /\ IF present
          THEN /\ asconfig' = out.written
               /\ problems' = problems \o out.probs
          ELSE /\ problems' = Append(problems, Problem("required files missing", NULL))
               /\ UNCHANGED asconfig
       /\ UNCHANGED <<vscSettings, vscTasks, dirs, files, inputData, cache, projects, classes, deps, tasks>>

----------------------------------------------------------------------------
(* .vscode/settings.json: writeVSCSettings *)

DotVscode == <<".", "v", "s", "c", "o", "d", "e">>

\* The settings after the "$sdk" short key is expanded; an empty string is
\* falsy and is left where it is
expandSdk(settings) ==
    IF "$sdk" \in DOMAIN settings /\ settings["$sdk"] # <<>>
    THEN [key \in (DOMAIN settings \ {"$sdk"}) \cup {"as3mxml.sdk.framework"} |->
             IF key = "as3mxml.sdk.framework" THEN settings["$sdk"] ELSE settings[key]]
    ELSE settings

\* projects.forEach(...) from the i-th project on
RECURSIVE writeSettings(_, _, _, _)
writeSettings(settings, purge, i, acc) ==
    IF i > Len(projects) THEN acc
    ELSE LET projectPath == projects[i].project_home_dir
             existingSettings == IF ~purge /\ projectPath \in DOMAIN acc.written
                                 THEN acc.written[projectPath] ELSE <<>>
             updatedSettings == settings @@ existingSettings
         IN writeSettings(settings, purge, i + 1,
                IF ~isDirectory(projectPath)
                THEN [acc EXCEPT !.probs = Append(@, Problem("Failed to write settings",
                                                             projectPath))]
                ELSE [acc EXCEPT !.written = (projectPath :> updatedSettings) @@ @,
                                 !.made = @ \cup {Join(projectPath, DotVscode)}])

\* settings is {} when the caller gives none
WriteVSCSettings(settings, purge) ==
    LET outcome == IF "projects.json" \notin cache THEN "missing input"
                   ELSE IF DOMAIN settings = {} THEN "no settings"
                   ELSE "returned"
        out == writeSettings(expandSdk(settings), purge, 1,
                             [written |-> vscSettings, made |-> {}, probs |-> <<>>])
    IN /\ call.n < call.limit
       /\ call' = [Call("writeVSCSettings", outcome, call.amendments) EXCEPT
                      !.args = [settings |-> settings, purge |-> purge]]
       /\ before' = Snapshot
       /\ CASE outcome = "missing input" ->
                 /\ problems' = Append(problems, Problem("projects.json is missing", NULL))
                 /\ UNCHANGED <<vscSettings, dirs>>
            [] outcome = "no settings" ->
                 UNCHANGED <<vscSettings, dirs, problems>>
            [] outcome = "returned" ->
                 /\ vscSettings' = out.written
                 /\ dirs' = dirs \cup out.made
                 /\ problems' = problems \o out.probs
       /\ UNCHANGED <<asconfig, vscTasks, files, inputData, cache, projects, classes, deps, tasks>>

----------------------------------------------------------------------------
(* .vscode/tasks.json: writeVSCTasks *)

MascotPrefix == <<"M", "A", "S", "C", "O", "T", ":", " ">>
Asconfigc == <<"a", "s", "c", "o", "n", "f", "i", "g", "c">>

\* The decimal text of a number below ten
Digit(n) == <<(<<"0", "1", "2", "3", "4", "5", "6", "7", "8", "9">>)[n + 1]>>

\* ${debug ? "debug" : "release"}
ModeName(debug) ==
    IF debug THEN <<"d", "e", "b", "u", "g">> ELSE <<"r", "e", "l", "e", "a", "s", "e">>

\* `--debug=${$debug}`
DebugFlag(debug) ==
    <<"-", "-", "d", "e", "b", "u", "g", "=">> \o
    (IF debug THEN <<"t", "r", "u", "e">> ELSE <<"f", "a", "l", "s", "e">>)

\* `MASCOT: build dependency #${$index + 1} (${mode})`
SubTaskLabel(index, debug) ==
    MascotPrefix \o
    <<"b", "u", "i", "l", "d", " ", "d", "e", "p", "e", "n", "d", "e", "n", "c", "y", " ", "#">> \o
    Digit(index + 1) \o <<" ", "(">> \o ModeName(debug) \o <<")">>

\* Variant: the suffix is chosen from the list as it was before the pop.
MasterLabelBeforePop(debug, numSubTasks, isRebuild) ==
    MascotPrefix \o <<"c", "o", "m", "p", "i", "l", "e", " ">> \o ModeName(debug) \o
    (IF ~isRebuild THEN <<" ", "(", "w", "i", "t", "h", " ", "d", "e", "p", "s", ")">>
     ELSE <<" ", "(", "n", "o", "t", " ", "n", "e", "e", "d", "e", "d", ")">>)

\* `MASCOT: compile ${mode}${suffix}`
MasterLabel(debug, numSubTasks, isRebuild) ==
    MascotPrefix \o <<"c", "o", "m", "p", "i", "l", "e", " ">> \o ModeName(debug) \o
    (IF numSubTasks # 0 THEN <<" ", "(", "w", "i", "t", "h", " ", "d", "e", "p", "s", ")">>
     ELSE IF isRebuild THEN <<" ", "(", "n", "o", "t", " ", "n", "e", "e", "d", "e", "d", ")">>
     ELSE <<>>)

\* ...($previousTaskLabel ? { dependsOn: $previousTaskLabel } : {})
DependsOn(previousTaskLabel) ==
    IF previousTaskLabel # NULL THEN "dependsOn" :> previousTaskLabel ELSE <<>>

\* The task createSubTask pushes
createSubTask(depProjectPath, index, pathToAsconfigc, pathToAirSdk, debug, previousTaskLabel) ==
    DependsOn(previousTaskLabel) @@
    [label |-> SubTaskLabel(index, debug),
     type |-> "shell",
     command |-> pathToAsconfigc,
     args |-> <<"--sdk", pathToAirSdk, "--project", depProjectPath, DebugFlag(debug)>>,
     group |-> [kind |-> "none", isDefault |-> FALSE],
     problemMatcher |-> <<>>]

\* project_build_tasks.forEach(...) for one mode, from the entry at index on
RECURSIVE addSubTasks(_, _, _, _, _)

\* Variant: the label of the task just pushed is not carried to the next.
addSubTasksUnchained(list, index, settings, debugMode, acc) ==
    IF index >= Len(list) THEN acc
    ELSE LET task == createSubTask(list[index + 1], index, settings.path_to_asconfigc,
                                   settings.path_to_air_sdk, debugMode,
                                   acc.previousTaskLabel)
         IN addSubTasks(list, index + 1, settings, debugMode,
                        [tasks |-> Append(acc.tasks, task),
                         previousTaskLabel |-> acc.previousTaskLabel])

addSubTasks(list, index, settings, debugMode, acc) ==
    IF index >= Len(list) THEN acc
    ELSE LET task == createSubTask(list[index + 1], index, settings.path_to_asconfigc,
                                   settings.path_to_air_sdk, debugMode,
                                   acc.previousTaskLabel)
         IN addSubTasks(list, index + 1, settings, debugMode,
                        [tasks |-> Append(acc.tasks, task),
                         previousTaskLabel |-> task.label])

\* One round of [true, false].forEach: the sub-tasks of a mode, then its
\* master task
addMode(list, isRebuild, settings, debugMode, taskList) ==
    LET subs == addSubTasks(list, 0, settings, debugMode,
                            [tasks |-> taskList, previousTaskLabel |-> NULL])
    IN Append(subs.tasks,
              DependsOn(subs.previousTaskLabel) @@
              [label |-> MasterLabel(debugMode, Len(list), isRebuild),
               type |-> "actionscript",
               debug |-> debugMode,
               asconfig |-> "asconfig.json",
               group |-> "build",
               problemMatcher |-> <<>>])

\* Variant: array.shift(), the list without its first entry.
Shift(list) == IF list = <<>> THEN <<>> ELSE Tail(list)

\* array.pop(): the list without its last entry
Pop(list) == IF list = <<>> THEN <<>> ELSE SubSeq(list, 1, Len(list) - 1)

\* Variant: only the master tasks count as MASCOT tasks.
IsMascotMaster(t) == StartsWith(t.label, MascotPrefix \o <<"c">>)

\* t.label.startsWith("MASCOT: ")
IsMascotTask(t) == StartsWith(t.label, MascotPrefix)

\* The .vscode/tasks.json of one task entry; skipped when MASCOT tasks exist
\* and purge is off
tasksJsonFor(task, settings, purge, existing) ==
    LET loaded == IF task.project_path \in DOMAIN existing
                  THEN existing[task.project_path]
                  ELSE [version |-> "2.0.0", tasks |-> <<>>]
        kept == IF purge THEN SelectSeq(loaded.tasks, LAMBDA t : ~IsMascotTask(t))
                ELSE loaded.tasks
        isRebuild == task.project_build_tasks = <<>>
        list == Pop(task.project_build_tasks)
    IN [skipped |-> ~purge /\ \E k \in 1..Len(loaded.tasks) : IsMascotTask(loaded.tasks[k]),
        json |-> [loaded EXCEPT !.tasks = addMode(list, isRebuild, settings, FALSE,
                                              addMode(list, isRebuild, settings, TRUE, kept))]]

\* tasks.forEach(...) from the i-th entry of tasks.json on
RECURSIVE writeTasks(_, _, _, _)
writeTasks(settings, purge, i, acc) ==
    IF i > Len(tasks) THEN acc
    ELSE LET projectPath == tasks[i].project_path
             tasksJson == tasksJsonFor(tasks[i], settings, purge, acc.written)
         IN writeTasks(settings, purge, i + 1,
                IF ~isDirectory(projectPath)
                THEN [acc EXCEPT !.probs = Append(@, Problem("Failed to write tasks.json",
                                                             projectPath))]
                ELSE IF tasksJson.skipped
                THEN [acc EXCEPT !.made = @ \cup {Join(projectPath, DotVscode)}]
                ELSE [acc EXCEPT !.written = (projectPath :> tasksJson.json) @@ @,
                                 !.made = @ \cup {Join(projectPath, DotVscode)}])

\* sdk is settings.path_to_air_sdk, NULL when the settings have none
WriteVSCTasks(sdk, purge) ==
    LET settings == [path_to_asconfigc |-> Asconfigc, path_to_air_sdk |-> sdk]
        outcome == IF "tasks.json" \notin cache THEN "missing input"
                   ELSE IF sdk = NULL THEN "no sdk"
                   ELSE "returned"
        out == writeTasks(settings, purge, 1,
                          [written |-> vscTasks, made |-> {}, probs |-> <<>>])
    IN /\ call.n < call.limit
       /\ call' = [Call("writeVSCTasks", outcome, call.amendments) EXCEPT
                      !.args = [sdk |-> sdk, purge |-> purge, existing |-> vscTasks]]
       /\ before' = Snapshot
       /\ CASE outcome = "missing input" ->
                 /\ problems' = Append(problems, Problem("tasks.json is missing", NULL))
                 /\ UNCHANGED <<vscTasks, dirs>>
            [] outcome = "no sdk" ->
                 /\ problems' = Append(problems, Problem("path_to_air_sdk is required", NULL))
                 /\ UNCHANGED <<vscTasks, dirs>>
            [] outcome = "returned" ->
                 /\ vscTasks' = out.written
                 /\ dirs' = dirs \cup out.made
                 /\ problems' = problems \o out.probs
       /\ UNCHANGED <<asconfig, vscSettings, files, inputData, cache, projects, classes, deps, tasks>>

----------------------------------------------------------------------------
(* The planner and the filter over the dependency graphs of a workspace. *)

\* The catalog entry of a library project without descriptors
Project(home, classFiles, isDirty) ==
    [project_home_dir |-> home, classFiles |-> classFiles, is_dirty |-> isDirty,
     has_descriptor |-> FALSE, known_descriptors |-> <<>>]

\* The dependency lists buildDependencies can write for project i: no node at
\* all, or a list without repetition of other projects of the catalog.
NodeChoices(i) ==
    {[present |-> FALSE, list |-> <<>>]} \cup
    {[present |-> TRUE, list |-> l] : l \in DistinctSeqs(Homes \ {Home(i)}, NumProjects - 1)}

\* The graphs over the catalog with at most MaxEdges edges, project by project.
RECURSIVE GraphsFrom(_, _)
GraphsFrom(i, budget) ==
    IF i > NumProjects THEN {<<>>}
    ELSE UNION {{<<c>> \o g : g \in GraphsFrom(i + 1, budget - Len(c.list))} :
                   c \in {n \in NodeChoices(i) : Len(n.list) <= budget}}

Graphs == GraphsFrom(1, MaxEdges)

\* deps.json for graph g: nodes in catalog order, then sorted as the builder does
DepsJson(g) ==
    LET present == SelectSeq([i \in 1..NumProjects |-> i], LAMBDA i : g[i].present)
    IN SortByNumDependencies([k \in 1..Len(present) |->
                                 Node(Home(present[k]), g[present[k]].list)])

\* tasks.json as an earlier run left it, when no project had a dependency yet
StaleTasks == [i \in 1..NumProjects |-> Task(Home(i), <<Home(i)>>)]

InitPlan ==
    /\ dirs = Homes
    /\ files = <<>>
    /\ \E dirty \in [1..NumProjects -> BOOLEAN] :
           projects = [i \in 1..NumProjects |-> Project(Home(i), <<>>, dirty[i])]
    /\ classes = <<>>
    /\ \E g \in Graphs : deps = DepsJson(g)
    /\ \E stale \in BOOLEAN :
           /\ tasks = IF stale THEN StaleTasks ELSE <<>>
           /\ cache = {"projects.json", "deps.json"} \cup
                         (IF stale THEN {"tasks.json"} ELSE {})
    /\ problems = <<>>
    /\ asconfig = <<>> /\ vscSettings = <<>> /\ vscTasks = <<>>
    /\ call = NoCall
    /\ before = [classes |-> <<>>, tasks |-> <<>>, problems |-> <<>>]
    /\ inputData = NoInput

\* One run over the graph: the planner, then the filter any number of times; a
\* caller may leave the planner out and filter the tasks.json it finds.
NextPlan ==
    \/ \E replace \in BOOLEAN :
          /\ call.stage = ""
          /\ MakeBuildTasks(replace)
    \/ ApplyDirtinessFilter

SpecPlan == InitPlan /\ [][NextPlan]_vars

----------------------------------------------------------------------------
(* The scanner, the patcher and the builder over the workspaces. *)

\* The class files a project may hold, in the order collectFiles meets them
\* (readdir order: directory "a", then directory "x").
RelPathOrder ==
    << <<"a", "/", "A", ".", "a", "s">>,
       <<"x", "/", "a", "/", "A", ".", "a", "s">> >>

\* The qualified names a class file may refer to: a.A is declared by a/A.as
\* wherever a project holds it, a.A.B by no file.
QualifiedNames == { <<"a", ".", "A">>, <<"a", ".", "A", ".", "B">> }

ClassPath(i, r) == Join(Join(Home(i), Src), RelPathOrder[r])

\* Which project holds which class file.
Placements ==
    {S \in SUBSET ((1..NumProjects) \X (1..Len(RelPathOrder))) : Cardinality(S) <= MaxSources}

\* The references of the workspace, as <<file, name, kind>> in textual order:
\* none, or one "import <name>;" or one "new <name>(...)" in one class file.
ReferenceLists(S) ==
    {<<>>} \cup {<<(<<ClassPath(s[1], s[2]), name, kind>>)>> :
                     s \in S, name \in QualifiedNames, kind \in {"import", "new"}}

ReferencesOf(path, kind, list) ==
    LET mine == SelectSeq(list, LAMBDA e : e[1] = path /\ e[3] = kind)
    IN [k \in 1..Len(mine) |-> mine[k][2]]

\* projects.json as doShallowScan writes it for placement S
Catalog(S) ==
    [i \in 1..NumProjects |->
        Project(Home(i),
                LET held == SelectSeq([r \in 1..Len(RelPathOrder) |-> r],
                                      LAMBDA r : <<i, r>> \in S)
                IN [k \in 1..Len(held) |-> RelPathOrder[held[k]]],
                FALSE)]

\* The paths an amendment may name: project homes, a directory that holds no
\* project, and a path at which nothing exists.
AmendPaths == Homes \cup {WorkspaceDir, Nowhere}

AmendmentLists ==
    {<<[project |-> p, dependencies |-> d]>> :
        p \in AmendPaths, d \in DistinctSeqs(AmendPaths, 2)}

InitScan ==
    /\ dirs = Homes \cup {WorkspaceDir}
    /\ \E S \in Placements :
           /\ projects = Catalog(S)
           /\ \E list \in ReferenceLists(S) :
                  files = [path \in {ClassPath(s[1], s[2]) : s \in S} |->
                              [imports |-> ReferencesOf(path, "import", list),
                               instantiations |-> ReferencesOf(path, "new", list)]]
    /\ cache = {"projects.json"}
    /\ classes = <<>>
    /\ deps = <<>>
    /\ tasks = <<>>
    /\ problems = <<>>
    /\ asconfig = <<>> /\ vscSettings = <<>> /\ vscTasks = <<>>
    /\ call = NoCall
    /\ before = [classes |-> <<>>, tasks |-> <<>>, problems |-> <<>>]
    /\ inputData = NoInput

\* One run over the workspace: the deep scan, then manuallyAddDependencies
\* (which is to be called after doDeepScan and before buildDependencies), then
\* the builder; a caller may leave stages out.
NextScan ==
    \/ \E replace \in BOOLEAN :
          /\ call.stage = ""
          /\ DoDeepScan(replace)
    \/ \E amendments \in AmendmentLists :
          /\ call.stage = "doDeepScan"
          /\ ManuallyAddDependencies(amendments)
    \/ \E replace \in BOOLEAN :
          /\ call.stage # "buildDependencies"
          /\ BuildDependencies(replace)

SpecScan == InitScan /\ [][NextScan]_vars

----------------------------------------------------------------------------
(* The patcher applied once or twice with the same list, then the builder. *)

\* Workspaces whose class files refer to no other class: every edge of
\* deps.json then comes from a patch coupling.
InitRepatch ==
    /\ dirs = Homes \cup {WorkspaceDir}
    /\ \E S \in Placements :
           /\ projects = Catalog(S)
           /\ files = [path \in {ClassPath(s[1], s[2]) : s \in S} |->
                          [imports |-> <<>>, instantiations |-> <<>>]]
    /\ cache = {"projects.json"}
    /\ classes = <<>>
    /\ deps = <<>>
    /\ tasks = <<>>
    /\ problems = <<>>
    /\ asconfig = <<>> /\ vscSettings = <<>> /\ vscTasks = <<>>
    /\ call = NoCall
    /\ before = [classes |-> <<>>, tasks |-> <<>>, problems |-> <<>>]
    /\ inputData = NoInput

NextRepatch ==
    \/ /\ call.stage = ""
       /\ DoDeepScan(TRUE)
    \/ \E amendments \in AmendmentLists :
          /\ \/ call.stage = "doDeepScan"
             \/ call.stage = "manuallyAddDependencies" /\ call.amendments = amendments
          /\ ManuallyAddDependencies(amendments)
    \/ /\ call.stage = "manuallyAddDependencies"
       /\ BuildDependencies(TRUE)

SpecRepatch == InitRepatch /\ [][NextRepatch]_vars

----------------------------------------------------------------------------
(* The shallow scan over workspaces of two top-level directories. *)

\* The files a top-level directory may hold, relative to it: class files,
\* application descriptors, binaries, a library, and a class file of a
\* project nested in a child directory of src, or in a directory below one.
WorkspaceFiles ==
    { Join(Src, <<"M">> \o DotAs),
      Join(Src, Join(<<"m">>, <<"M">> \o DotAs)),
      Join(Src, Join(<<"a">>, <<"A">> \o DotAs)),
      Join(Src, <<"M">> \o AppXml),
      Join(Src, <<"m">> \o AppXml),
      Join(Src, <<"Z">> \o AppXml),
      Join(Bin, <<"x">> \o DotSwf),
      Join(Bin, <<"x">> \o DotSwc),
      Join(Lib, <<"x">> \o DotSwc),
      Join(Src, Join(<<"k">>, Join(Src, <<"A">> \o DotAs))),
      Join(Src, Join(<<"a">>, Join(<<"k">>, Join(Src, <<"A">> \o DotAs)))) }

\* The directories above a path, the workspace directory included
Ancestors(path) == {SubSeq(path, 1, i - 1) : i \in {j \in 2..Len(path) : path[j] = "/"}}

\* The workspaces: at most MaxEntries files below the homes p and q.
Workspaces ==
    {S \in SUBSET {Join(h, f) : h \in {Home(1), Home(2)}, f \in WorkspaceFiles} :
        Cardinality(S) <= MaxEntries}

\* Sources were last changed at time 2; a library binary was built before
\* that, at time 1, and an application binary after it, at time 3.
FileOnDisk(path) ==
    [imports |-> <<>>, instantiations |-> <<>>,
     mtime |-> IF EndsWith(path, DotSwc) THEN 1 ELSE IF EndsWith(path, DotSwf) THEN 3 ELSE 2]

InitShallow ==
    /\ \E S \in Workspaces :
           /\ dirs = {WorkspaceDir} \cup UNION {Ancestors(path) : path \in S}
           /\ files = [path \in S |-> FileOnDisk(path)]
    /\ \E scanned \in BOOLEAN :
           cache = IF scanned THEN {"projects.json"} ELSE {}
    /\ projects = <<>>
    /\ classes = <<>>
    /\ deps = <<>>
    /\ tasks = <<>>
    /\ problems = <<>>
    /\ asconfig = <<>> /\ vscSettings = <<>> /\ vscTasks = <<>>
    /\ call = NoCall
    /\ before = [classes |-> <<>>, tasks |-> <<>>, problems |-> <<>>]
    /\ inputData = NoInput

\* One scan of the workspace.
NextShallow ==
    \E replace \in BOOLEAN :
        /\ call.stage = ""
        /\ DoShallowScan(replace)

SpecShallow == InitShallow /\ [][NextShallow]_vars

----------------------------------------------------------------------------
(* The whole pipeline over a workspace of an application and a library. *)

\* The stage calls of one run, in the order the command-line script makes them
PipelineStages == 7

AppHome == Home(1)
LibHome == Home(2)
ImportedName == <<"a", ".", "A">>
Sdk == <<"/", "s", "d", "k">>

\* The class file of the application: M in package m, or M in no package
AppClassFiles == { Join(<<"m">>, <<"M">> \o DotAs), <<"M">> \o DotAs }

\* What the application holds besides its class: descriptors named m and M,
\* a class Main, an application binary, a library binary
AppExtras ==
    { Join(Src, <<"m">> \o AppXml), Join(Src, <<"M">> \o AppXml),
      Join(Src, <<"M", "a", "i", "n">> \o DotAs),
      Join(Bin, <<"x">> \o DotSwf), Join(Lib, <<"x">> \o DotSwc) }

\* A directory whose src holds an image and no class file
AssetsHome == Home(3)
AssetFile == Join(AssetsHome, Join(Src, <<"l", "o", "g", "o", ".", "p", "n", "g">>))

\* The class file of the library
LibClassFile == Join(LibHome, Join(Src, Join(<<"a">>, <<"A">> \o DotAs)))

\* A base that has a value for every key the emitter owns, and two keys the
\* emitter does not own
FullBase ==
    ("config" :> "flex") @@ ("type" :> "native") @@ ("mainClass" :> <<"X">>) @@
    ("application" :> <<"X", ".", "x", "m", "l">>) @@
    ("copySourcePathAssets" :> FALSE) @@
    ("compilerOptions.debug" :> FALSE) @@
    ("compilerOptions.library-path" :> << <<"x">> >>) @@
    ("compilerOptions.output" :> <<"x">>) @@
    ("compilerOptions.source-path" :> << <<"x">> >>) @@
    ("compilerOptions.include-sources" :> << <<"x">> >>) @@
    ("compilerOptions.advanced-telemetry" :> TRUE) @@
    ("airOptions" :> <<"x">>)

Bases == {<<>>, FullBase}
ConfigDefaults == {<<>>, [debug_mode |-> TRUE]}
EditorSettings == {<<>>, "$sdk" :> Sdk}

InitPipeline ==
    /\ \E classFile \in AppClassFiles, extras \in SUBSET AppExtras,
          withLibrary, withAssets \in BOOLEAN :
           LET appClass == Join(AppHome, Join(Src, classFile))
               S == {appClass} \cup {Join(AppHome, f) : f \in extras}
                        \cup (IF withLibrary THEN {LibClassFile} ELSE {})
                        \cup (IF withAssets THEN {AssetFile} ELSE {})
           IN /\ dirs = {WorkspaceDir} \cup UNION {Ancestors(path) : path \in S}
              /\ files = [path \in S |->
                            IF path = appClass
                            THEN [FileOnDisk(path) EXCEPT !.imports = <<ImportedName>>]
                            ELSE FileOnDisk(path)]
    /\ cache = {}
    /\ projects = <<>>
    /\ classes = <<>>
    /\ deps = <<>>
    /\ tasks = <<>>
    /\ problems = <<>>
    /\ asconfig = <<>> /\ vscSettings = <<>> /\ vscTasks = <<>>
    /\ call = [NoCall EXCEPT !.limit = PipelineStages]
    /\ before = [classes |-> <<>>, tasks |-> <<>>, problems |-> <<>>]
    /\ inputData = NoInput

\* The stages in the order of the script; an uncaught exception ends the run.
NextPipeline ==
    \/ /\ call.stage = ""
       /\ DoShallowScan(TRUE)
    \/ /\ call.stage = "doShallowScan" /\ call.outcome # "TypeError"
       /\ DoDeepScan(TRUE)
    \/ /\ call.stage = "doDeepScan"
       /\ BuildDependencies(TRUE)
    \/ \E overwrite, undefinedWins \in BOOLEAN, defaults \in ConfigDefaults, base \in Bases :
          /\ call.stage = "buildDependencies"
          /\ WriteConfig(overwrite, defaults, base, undefinedWins)
    \/ \E settings \in EditorSettings :
          /\ call.stage = "writeConfig"
          /\ WriteVSCSettings(settings, TRUE)
    \/ /\ call.stage = "writeVSCSettings"
       /\ MakeBuildTasks(TRUE)
    \/ \E sdk \in {Sdk, NULL}, purge \in BOOLEAN :
          /\ call.stage = "makeBuildTasks" /\ call.outcome # "RangeError"
          /\ WriteVSCTasks(sdk, purge)

SpecPipeline == InitPipeline /\ [][NextPipeline]_vars

----------------------------------------------------------------------------
(* The planner, the filter and the task emitter over three projects. *)

\* The dependency lists of the projects p, q and r: no edge, p on q, a chain,
\* and p on both q and r.
TaskGraphs ==
    { << <<>>, <<>>, <<>> >>,
      << <<Home(2)>>, <<>>, <<>> >>,
      << <<Home(2)>>, <<Home(3)>>, <<>> >>,
      << <<Home(2), Home(3)>>, <<>>, <<>> >> }

\* Tasks of the user's own, and a task an earlier run of the emitter left
LintTask == [label |-> <<"l", "i", "n", "t">>, type |-> "shell"]
TestTask == [label |-> <<"t", "e", "s", "t">>, type |-> "shell"]
StaleTask == [label |-> MascotPrefix \o <<"o", "l", "d">>, type |-> "shell"]

\* The .vscode/tasks.json files project p may have before the emitter runs
ExistingTaskFiles ==
    { <<>>,
      Home(1) :> [version |-> "2.0.0", tasks |-> <<LintTask, TestTask>>],
      Home(1) :> [version |-> "2.0.0", tasks |-> <<LintTask, StaleTask, TestTask>>] }

InitTasks ==
    /\ dirs = {WorkspaceDir} \cup {Home(i) : i \in 1..3}
    /\ files = <<>>
    /\ \E dirty \in [1..3 -> BOOLEAN] :
           projects = [i \in 1..3 |-> Project(Home(i), <<>>, dirty[i])]
    /\ classes = <<>>
    /\ \E g \in TaskGraphs :
           deps = SortByNumDependencies([i \in 1..3 |-> Node(Home(i), g[i])])
    /\ tasks = <<>>
    /\ cache = {"projects.json", "classes.json", "deps.json"}
    /\ problems = <<>>
    /\ asconfig = <<>> /\ vscSettings = <<>>
    /\ vscTasks \in ExistingTaskFiles
    /\ call = [NoCall EXCEPT !.limit = MaxTaskCalls]
    /\ before = [classes |-> <<>>, tasks |-> <<>>, problems |-> <<>>]
    /\ inputData = NoInput

\* The planner, the filter if the caller wants it, and then the emitter, which
\* may be run again over the files it has written.
NextTasks ==
    \/ /\ call.stage = ""
       /\ MakeBuildTasks(TRUE)
    \/ /\ call.stage = "makeBuildTasks"
       /\ ApplyDirtinessFilter
    \/ \E sdk \in {Sdk, NULL}, purge \in BOOLEAN :
          /\ call.stage \in {"makeBuildTasks", "applyDirtinessFilter", "writeVSCTasks"}
          /\ WriteVSCTasks(sdk, purge)

SpecTasks == InitTasks /\ [][NextTasks]_vars

----------------------------------------------------------------------------
(* The stages called in any order on a workspace that was never scanned. *)

\* A workspace of one project, or of a project and the library it imports
\* from, and an empty cache directory.
InitMissing ==
    /\ \E withLibrary \in BOOLEAN :
           LET appClass == Join(AppHome, Join(Src, <<"M", ".", "a", "s">>))
               S == {appClass} \cup (IF withLibrary THEN {LibClassFile} ELSE {})
           IN /\ dirs = {WorkspaceDir} \cup UNION {Ancestors(path) : path \in S}
              /\ files = [path \in S |->
                            IF path = appClass
                            THEN [FileOnDisk(path) EXCEPT !.imports = <<ImportedName>>]
                            ELSE FileOnDisk(path)]
    /\ cache = {}
    /\ projects = <<>> /\ classes = <<>> /\ deps = <<>> /\ tasks = <<>>
    /\ problems = <<>>
    /\ asconfig = <<>> /\ vscSettings = <<>> /\ vscTasks = <<>>
    /\ call = [NoCall EXCEPT !.limit = MaxStageCalls]
    /\ before = [classes |-> <<>>, tasks |-> <<>>, problems |-> <<>>]
    /\ inputData = NoInput

\* One call of one stage, whatever was called before it.
NextMissing ==
    \/ DoShallowScan(TRUE)
    \/ DoDeepScan(TRUE)
    \/ ManuallyAddDependencies(<<[project |-> AppHome, dependencies |-> <<LibHome>>]>>)
    \/ BuildDependencies(TRUE)
    \/ MakeBuildTasks(TRUE)
    \/ ApplyDirtinessFilter
    \/ WriteConfig(TRUE, <<>>, <<>>, TRUE)
    \/ WriteVSCSettings("$sdk" :> Sdk, TRUE)
    \/ WriteVSCTasks(Sdk, TRUE)

SpecMissing == InitMissing /\ [][NextMissing]_vars

----------------------------------------------------------------------------
(* cliMain with generate: the stages as the command line runs them. *)

\* The stage calls one run of cliMain can make
CliStages == 9

ThirdHome == Home(3)
ThirdName == <<"m", ".", "M">>
ThirdClassFile == Join(ThirdHome, Join(Src, Join(<<"m">>, <<"M">> \o DotAs)))

\* if (manual_dependencies && manual_dependencies.length > 0)
HasAmendments ==
    /\ inputData.g_manual_dependencies # NULL
    /\ Len(inputData.g_manual_dependencies) > 0

\* Variant: the filter is applied whatever the command line says.
SkipsFilterNever == FALSE

\* if (!inputData.g_rebuild) applyDirtinessFilter(...)
SkipsFilter == inputData.g_rebuild

\* The workspace: p imports a class of q; q may import a class of r, and r a
\* class of q; each project may have an application binary newer than its
\* sources.  The command line may ask to rebuild everything and may give
\* manual dependencies: none (or an empty list), or r as a dependency of p.
InitCli ==
    /\ \E qImports, rImports \in BOOLEAN, built \in SUBSET {AppHome, LibHome, ThirdHome} :
           LET appClass == Join(AppHome, Join(Src, <<"M">> \o DotAs))
               S == {appClass, LibClassFile, ThirdClassFile}
                        \cup {Join(h, Join(Bin, <<"x">> \o DotSwf)) : h \in built}
               importsOf(path) ==
                   IF path = appClass THEN <<ImportedName>>
                   ELSE IF path = LibClassFile /\ qImports THEN <<ThirdName>>
                   ELSE IF path = ThirdClassFile /\ rImports THEN <<ImportedName>>
                   ELSE <<>>
           IN /\ dirs = {WorkspaceDir} \cup UNION {Ancestors(path) : path \in S}
              /\ files = [path \in S |-> [FileOnDisk(path) EXCEPT !.imports = importsOf(path)]]
    /\ \E rebuild \in BOOLEAN,
          manual \in {NULL, <<[project |-> AppHome, dependencies |-> <<ThirdHome>>]>>} :
           inputData = [generate |-> TRUE, g_rebuild |-> rebuild,
                        g_manual_dependencies |-> manual,
                        g_sdk_directory |-> Sdk, g_asconfig_base |-> <<>>]
    /\ cache = {}
    /\ projects = <<>>
    /\ classes = <<>>
    /\ deps = <<>>
    /\ tasks = <<>>
    /\ problems = <<>>
    /\ asconfig = <<>> /\ vscSettings = <<>> /\ vscTasks = <<>>
    /\ call = [NoCall EXCEPT !.limit = CliStages]
    /\ before = [classes |-> <<>>, tasks |-> <<>>, problems |-> <<>>]

\* Inside if (inputData.generate) { ... }; an uncaught exception ends the run.
Running ==
    /\ inputData.generate
    /\ call.outcome \notin {"TypeError", "RangeError"}

\* The next stage call of the run
NextCli ==
    \/ /\ Running /\ call.stage = ""
       /\ DoShallowScan(TRUE)
    \/ /\ Running /\ call.stage = "doShallowScan"
       /\ DoDeepScan(TRUE)
    \/ /\ Running /\ call.stage = "doDeepScan" /\ HasAmendments
       /\ ManuallyAddDependencies(inputData.g_manual_dependencies)
    \/ /\ Running
       /\ \/ call.stage = "doDeepScan" /\ ~HasAmendments
          \/ call.stage = "manuallyAddDependencies"
       /\ BuildDependencies(TRUE)
    \/ \E undefinedWins \in BOOLEAN :
          /\ Running /\ call.stage = "buildDependencies"
          /\ WriteConfig(TRUE, <<>>, inputData.g_asconfig_base, undefinedWins)
    \/ /\ Running /\ call.stage = "writeConfig"
       /\ WriteVSCSettings("$sdk" :> inputData.g_sdk_directory, FALSE)
    \/ /\ Running /\ call.stage = "writeVSCSettings"
       /\ MakeBuildTasks(TRUE)
    \/ /\ Running /\ call.stage = "makeBuildTasks" /\ ~SkipsFilter
       /\ ApplyDirtinessFilter
    \/ /\ Running
       /\ \/ call.stage = "makeBuildTasks" /\ SkipsFilter
          \/ call.stage = "applyDirtinessFilter"
       /\ WriteVSCTasks(inputData.g_sdk_directory, TRUE)

SpecCli == InitCli /\ [][NextCli]_vars

----------------------------------------------------------------------------
(* The cache-writing stages over a cache directory left by an earlier run. *)

\* The cache directory as a run over the workspace left it when the
\* workspace held no project yet (each artifact is the empty list), with
\* each artifact still there or removed since; the workspace now holds a
\* project, or a project and the library it imports from.
InitSkip ==
    /\ \E withLibrary \in BOOLEAN :
           LET appClass == Join(AppHome, Join(Src, <<"M", ".", "a", "s">>))
               S == {appClass} \cup (IF withLibrary THEN {LibClassFile} ELSE {})
           IN /\ dirs = {WorkspaceDir} \cup UNION {Ancestors(path) : path \in S}
              /\ files = [path \in S |->
                            IF path = appClass
                            THEN [FileOnDisk(path) EXCEPT !.imports = <<ImportedName>>]
                            ELSE FileOnDisk(path)]
    /\ cache \in SUBSET {"projects.json", "classes.json", "deps.json", "tasks.json"}
    /\ projects = <<>> /\ classes = <<>> /\ deps = <<>> /\ tasks = <<>>
    /\ problems = <<>>
    /\ asconfig = <<>> /\ vscSettings = <<>> /\ vscTasks = <<>>
    /\ call = NoCall
    /\ before = [classes |-> <<>>, tasks |-> <<>>, problems |-> <<>>]
    /\ inputData = NoInput

\* One call of a cache-writing stage, with or without replace.
NextSkip ==
    \/ \E replace \in BOOLEAN : DoShallowScan(replace)
    \/ \E replace \in BOOLEAN : DoDeepScan(replace)
    \/ \E replace \in BOOLEAN : BuildDependencies(replace)
    \/ \E replace \in BOOLEAN : MakeBuildTasks(replace)

SpecSkip == InitSkip /\ [][NextSkip]_vars

----------------------------------------------------------------------------
(* The dependency graph as a relation, for stating the properties. *)

NodePaths(d) == {d[i].project_path : i \in 1..Len(d)}

DirectDeps(d, p) ==
    IF FindNode(d, p) = 0 THEN {}
    ELSE {d[FindNode(d, p)].project_dependencies[j] :
             j \in 1..Len(d[FindNode(d, p)].project_dependencies)}

RECURSIVE Closure(_, _)
Closure(d, S) ==
    LET T == S \cup UNION {DirectDeps(d, q) : q \in S}
    IN IF T = S THEN S ELSE Closure(d, T)

\* The projects reachable from p along dependency edges, p included.
Reachable(d, p) == Closure(d, {p})

Acyclic(d) == \A p \in NodePaths(d) : \A q \in DirectDeps(d, p) : p \notin Reachable(d, q)

Elems(list) == {list[i] : i \in 1..Len(list)}

Planned == call.stage = "makeBuildTasks" /\ call.outcome = "returned"
Filtered == call.stage = "applyDirtinessFilter" /\ call.outcome = "returned"

\* C1: in every build list makeBuildTasks writes for an acyclic graph, each direct
\* dependency of the entry at index i that is in the list stands at an index j < i.
C1_TopologicalOrder ==
    (Planned /\ Acyclic(deps)) =>
        \A t \in 1..Len(tasks) :
            LET list == tasks[t].project_build_tasks IN
            \A i \in 1..Len(list) : \A dep \in DirectDeps(deps, list[i]) :
                dep \in Elems(list) => \E j \in 1..(i - 1) : list[j] = dep

\* A list of three projects forming a chain has been written.
C1_Witness ==
    /\ Planned /\ Acyclic(deps)
    /\ \E t \in 1..Len(tasks) :
           LET list == tasks[t].project_build_tasks IN
           /\ Len(list) = 3
           /\ list[1] \in DirectDeps(deps, list[2])
           /\ list[2] \in DirectDeps(deps, list[3])

\* C2: once makeBuildTasks has run on deps.json, every node P has exactly one
\* task, whose list holds exactly the projects reachable from P, each once, P
\* last, and whose num_tasks is the length of the list.
C2_ReachableSubgraph ==
    (call.stage = "makeBuildTasks" /\ call.outcome \in {"returned", "RangeError"}) =>
        /\ Len(tasks) = Len(deps)
        /\ \A k \in 1..Len(deps) :
               LET P == deps[k].project_path
                   list == tasks[k].project_build_tasks IN
               /\ tasks[k].project_path = P
               /\ \A m \in 1..Len(tasks) : tasks[m].project_path = P => m = k
               /\ Elems(list) = Reachable(deps, P)
               /\ Cardinality(Elems(list)) = Len(list)
               /\ list[Len(list)] = P
               /\ tasks[k].num_tasks = Len(list)

\* C3: makeBuildTasks terminates on every finite graph, cycles included: an
\* in-progress node is not entered again, so the call never exhausts the stack.
C3_PlannerTerminatesOnCycles ==
    call.stage = "makeBuildTasks" => call.outcome # "RangeError"

DirectlyDirty(p) == \E i \in 1..Len(projects) :
                        projects[i].project_home_dir = p /\ projects[i].is_dirty

TransitivelyDirty(p) == \E q \in Reachable(deps, p) : DirectlyDirty(q)

\* C4: after applyDirtinessFilter, each list is the subsequence of its previous
\* entries that are graph nodes and are dirty or reach a dirty project along
\* dependency edges; num_tasks is the new length.
C4_TransitivelyDirtyKept ==
    Filtered =>
        /\ Len(tasks) = Len(before.tasks)
        /\ \A t \in 1..Len(tasks) :
               /\ tasks[t].project_path = before.tasks[t].project_path
               /\ tasks[t].project_build_tasks =
                      SelectSeq(before.tasks[t].project_build_tasks,
                                LAMBDA e : e \in NodePaths(deps) /\ TransitivelyDirty(e))
               /\ tasks[t].num_tasks = Len(tasks[t].project_build_tasks)

\* C5: isProjectDirty, and so applyDirtinessFilter, terminates on graphs with
\* cycles whatever the dirty flags on the cycle: the memo cuts the recursion.
C5_FilterTerminatesOnCycles ==
    call.stage = "applyDirtinessFilter" => call.outcome # "RangeError"


----------------------------------------------------------------------------
(* The class catalog and the graph built from it, for stating the properties. *)

Scanned == call.stage = "doDeepScan" /\ call.outcome = "returned"
Patched == call.stage = "manuallyAddDependencies" /\ call.outcome = "returned"
Built == call.stage = "buildDependencies" /\ call.outcome = "returned"

RECURSIVE Flatten(_)
Flatten(ss) == IF ss = <<>> THEN <<>> ELSE Head(ss) \o Flatten(Tail(ss))

\* The couplings of the analyzed classes of project P, in catalog order.
CouplingsOf(cls, P) ==
    LET own == SelectSeq(cls, LAMBDA e : e.analyzed_class.project_dir = P)
    IN Flatten([k \in 1..Len(own) |-> own[k].class_couplings])

\* s without the elements that occurred earlier in it.
RECURSIVE FirstOccurrences(_)
FirstOccurrences(s) ==
    IF s = <<>> THEN <<>>
    ELSE LET front == SubSeq(s, 1, Len(s) - 1)
         IN IF Includes(front, s[Len(s)]) THEN FirstOccurrences(front)
            ELSE Append(FirstOccurrences(front), s[Len(s)])

\* C6: every node N written by buildDependencies lists, without repetition and in
\* order of first insertion, exactly the matching_project of the couplings of
\* N's classes that have class_exists, a non-null matching_project and one
\* other than N itself; N is not in its own list and num_dependencies is the
\* length of the list.
C6_NodeDependencies ==
    Built =>
        \A k \in 1..Len(deps) :
            LET N == deps[k]
                adding == SelectSeq(CouplingsOf(classes, N.project_path),
                                    LAMBDA c : /\ c.class_exists
                                               /\ c.matching_project # NULL
                                               /\ c.matching_project # N.project_path)
            IN /\ N.project_dependencies =
                      FirstOccurrences([i \in 1..Len(adding) |-> adding[i].matching_project])
               /\ ~Includes(N.project_dependencies, N.project_path)
               /\ N.num_dependencies = Len(N.project_dependencies)

\* A node has two dependencies drawn from three couplings: one coupling repeated
\* a target, pointed at the node itself or was unresolved.
C6_Witness ==
    /\ Built
    /\ \E k \in 1..Len(deps) :
           /\ Len(deps[k].project_dependencies) = 2
           /\ Len(CouplingsOf(classes, deps[k].project_path)) = 3

Qualified(c) == IF c.package # NULL THEN c.package \o <<".">> \o c.name ELSE c.name

IsUnresolvedEntry(p, c, filePath) ==
    /\ p.kind \in {"Unresolved dependency", "Unresolved global dependency"}
    /\ p.subject = Qualified(c)
    /\ p.where = filePath

\* C7: every coupling of the class catalog with class_exists has a non-null
\* matching_project and an expected_class_file that is on disk; every coupling
\* without it has both null and an unresolved-dependency entry in problems.log
\* naming it and the class that declares it.
C7_CouplingsConsistent ==
    \A i \in 1..Len(classes) : \A j \in 1..Len(classes[i].class_couplings) :
        LET c == classes[i].class_couplings[j] IN
        /\ c.coupling_type \in {"import", "fqn_instantiation", "patch"}
        /\ c.class_exists =>
               /\ c.matching_project # NULL
               /\ c.expected_class_file # NULL
               /\ OnDisk(c.expected_class_file)
        /\ ~c.class_exists =>
               /\ c.matching_project = NULL
               /\ c.expected_class_file = NULL
               /\ \E n \in 1..Len(problems) :
                      IsUnresolvedEntry(problems[n], c, classes[i].analyzed_class.file_path)

\* The catalog holds a patch coupling, a resolved scanned coupling or an
\* unresolved one next to it.
C7_Witness ==
    /\ Patched
    /\ \E i \in 1..Len(classes) : \E j \in 1..Len(classes[i].class_couplings) :
           classes[i].class_couplings[j].coupling_type = "patch"
    /\ \E i \in 1..Len(classes) : \E j \in 1..Len(classes[i].class_couplings) :
           ~classes[i].class_couplings[j].class_exists

\* Project i of the catalog lists a class file whose absolute path ends in rel.
HasSuffixEntry(i, rel) ==
    \E k \in 1..Len(projects[i].classFiles) :
        EndsWith(Join(Join(projects[i].project_home_dir, Src), projects[i].classFiles[k]), rel)

\* ... and <project>/src/<rel> is on disk.
HasClassFile(i, rel) ==
    /\ HasSuffixEntry(i, rel)
    /\ OnDisk(Join(Join(projects[i].project_home_dir, Src), rel))

ScannedCouplings ==
    {c \in UNION {Elems(classes[i].class_couplings) : i \in 1..Len(classes)} :
        c.coupling_type # "patch"}

\* C8 as stated: the matching_project of a resolved coupling is the first project
\* of projects.json with a class-file entry ending in the expected relative path.
C8_FirstSuffixMatch ==
    \A c \in ScannedCouplings :
        c.class_exists =>
            LET S == {i \in 1..Len(projects) : HasSuffixEntry(i, c.expected_relative_path)}
            IN S # {} /\ c.matching_project = projects[Min(S)].project_home_dir

\* C8: a coupling is resolved exactly when some project of projects.json has a
\* class-file entry ending in the expected relative path and holds that path
\* under its src directory, and its matching_project is the first such project.
C8_FirstSettlingMatch ==
    \A c \in ScannedCouplings :
        LET E == {i \in 1..Len(projects) : HasClassFile(i, c.expected_relative_path)}
        IN /\ c.class_exists <=> E # {}
           /\ c.class_exists =>
                  /\ c.matching_project = projects[Min(E)].project_home_dir
                  /\ c.expected_class_file =
                         Join(Join(c.matching_project, Src), c.expected_relative_path)

\* A coupling is resolved to a project that comes after one with a suffix match
\* only and before another that holds the class file too.
C8_Witness ==
    /\ Scanned
    /\ \E c \in ScannedCouplings : \E m \in 1..Len(projects) :
           /\ c.class_exists
           /\ c.matching_project = projects[m].project_home_dir
           /\ \E i \in 1..(m - 1) : HasSuffixEntry(i, c.expected_relative_path)
           /\ \E j \in (m + 1)..Len(projects) : HasClassFile(j, c.expected_relative_path)

\* A path that is on disk and is the home of a catalog project with class files.
ValidProject(h) ==
    /\ OnDisk(h)
    /\ FindProject(projects, h) # 0
    /\ projects[FindProject(projects, h)].classFiles # <<>>

\* C9: for a valid amendment {project: P, dependencies: [D]} the patch coupling
\* goes to a class entry owned by P and to no entry of another project, and
\* after buildDependencies D is a dependency of P and every edge of another
\* node comes from a scanned coupling of that node.
C9_PatchOnOwnClass ==
    (/\ Len(call.amendments) = 1
     /\ Len(call.amendments[1].dependencies) = 1
     /\ ValidProject(call.amendments[1].project)
     /\ ValidProject(call.amendments[1].dependencies[1])
     /\ call.amendments[1].project # call.amendments[1].dependencies[1]) =>
        LET P == call.amendments[1].project
            D == call.amendments[1].dependencies[1]
        IN /\ Patched =>
                  /\ classes # before.classes
                  /\ \A i \in 1..Len(classes) :
                         classes[i] # before.classes[i] =>
                             classes[i].analyzed_class.project_dir = P
           /\ Built =>
                  /\ D \in DirectDeps(deps, P)
                  /\ \A N \in NodePaths(deps) \ {P} : \A x \in DirectDeps(deps, N) :
                         \E c \in Elems(CouplingsOf(classes, N)) :
                             c.coupling_type # "patch" /\ c.matching_project = x

C11_SameGraphWhenReapplied ==
    (Patched /\ call.repeat = 2) => BuiltFrom(classes) = BuiltFrom(before.classes)

\* The list has been applied twice, the second application has prepended a
\* patch coupling again, and the graph built from the catalog has an edge.
C11_Witness ==
    /\ Patched /\ call.repeat = 2
    /\ classes # before.classes
    /\ \E k \in 1..Len(BuiltFrom(classes)) : BuiltFrom(classes)[k].num_dependencies = 2

----------------------------------------------------------------------------
(* The project catalog against the workspace, for stating the properties. *)

\* doShallowScan was the last stage and it wrote projects.json.
ShallowScanned == call.stage = "doShallowScan" /\ call.outcome = "returned"

EmittedHomes == {projects[k].project_home_dir : k \in 1..Len(projects)}

\* A directory with a child directory src.
IsCandidate(dir) == isDirectory(dir) /\ isDirectory(Join(dir, Src))

\* The src of dir has a child directory that itself contains a src.
HasNestedProject(dir) ==
    \E name \in Elems(NameOrder) :
        /\ isDirectory(Join(Join(dir, Src), name))
        /\ OnDisk(Join(Join(Join(dir, Src), name), Src))

Below(dir, outer) == StartsWith(dir, outer \o <<"/">>)

NestedEntry(dir) == Problem("Nested project detected", Join(dir, Src))

\* C12 as the specification words it: a candidate with a nested project is
\* rejected with a problems.log entry, no directory below it is emitted as a
\* project, and its siblings are scanned.
C12_NoDescentIntoRejected ==
    ShallowScanned =>
        \A outer \in dirs :
            (IsCandidate(outer) /\ HasNestedProject(outer)) =>
                /\ outer \notin EmittedHomes
                /\ Includes(problems, NestedEntry(outer))
                /\ \A dir \in EmittedHomes : ~Below(dir, outer)
                /\ \A dir \in dirs :
                       (IsCandidate(dir) /\ ~HasNestedProject(dir) /\ ~Below(dir, outer))
                           => dir \in EmittedHomes

\* C12: when the scan completes, a candidate with a nested project is not in
\* the catalog and has a "Nested project" entry in problems.log, and every
\* other directory with a child src, whether a sibling of a rejected candidate
\* or a directory below it, is in the catalog.
C12_RejectedButTraversed ==
    ShallowScanned =>
        \A dir \in dirs \ {WorkspaceDir} :
            /\ (IsCandidate(dir) /\ HasNestedProject(dir)) =>
                   (dir \notin EmittedHomes /\ Includes(problems, NestedEntry(dir)))
            /\ (IsCandidate(dir) /\ ~HasNestedProject(dir)) => dir \in EmittedHomes
            /\ ~IsCandidate(dir) => dir \notin EmittedHomes

\* Project p holds a class file and a project nested in src/k: p is rejected,
\* p/src/k and then the sibling q are in the catalog.
C12_Witness ==
    /\ ShallowScanned
    /\ OnDisk(Join(Join(Home(1), Src), <<"M">> \o DotAs))
    /\ problems = <<NestedEntry(Home(1))>>
    /\ Len(projects) = 2
    /\ projects[1].project_home_dir = Join(Join(Home(1), Src), <<"k">>)
    /\ projects[2].project_home_dir = Home(2)

\* The class files of project k whose basename without extension is name
ClassFilesNamed(k, name) ==
    {i \in 1..Len(projects[k].classFiles) :
        BeforeFirstDot(BaseName(projects[k].classFiles[i])) = name}

\* C13: a scan that is not skipped completes; every retained descriptor is
\* named after a class file of its project; and every directory with a child
\* src and no nested project is in the catalog, whatever descriptors its src
\* holds.
C13_UnmatchedDescriptorDropped ==
    (call.stage = "doShallowScan" /\ call.outcome # "skipped") =>
        /\ call.outcome = "returned"
        /\ \A k \in 1..Len(projects) :
               \A j \in 1..Len(projects[k].known_descriptors) :
                   ClassFilesNamed(k, projects[k].known_descriptors[j].name) # {}
        /\ \A dir \in dirs \ {WorkspaceDir} :
               (IsCandidate(dir) /\ ~HasNestedProject(dir)) => dir \in EmittedHomes

----------------------------------------------------------------------------
(* The outputs of the pipeline, for stating the properties. *)

\* Scenario S2: the application p holds src/m/M.as, which imports a.A, and
\* src/m-app.xml; the library q holds src/a/A.as.
S2Workspace ==
    DOMAIN files = { Join(AppHome, Join(Src, Join(<<"m">>, <<"M">> \o DotAs))),
                     Join(AppHome, Join(Src, <<"m">> \o AppXml)),
                     LibClassFile }

\* The last stage of the pipeline has run.
PipelineRan == call.stage = "writeVSCTasks"

\* writeConfig was given no base: the application's asconfig.json has none of
\* the keys only a base supplies.
NoBaseGiven == AppHome \in DOMAIN asconfig /\ "airOptions" \notin DOMAIN asconfig[AppHome]

S2Graph ==
    /\ \E k \in 1..Len(deps) :
           deps[k].project_path = AppHome /\ deps[k].project_dependencies = <<LibHome>>
    /\ \E k \in 1..Len(tasks) :
           tasks[k].project_path = AppHome /\ tasks[k].project_build_tasks = <<LibHome, AppHome>>

\* C14 as the specification words it: in scenario S2 the pipeline yields
\* app -> [libA], the build list [libA, app], and an asconfig.json for app
\* with type "app", mainClass "M" and libA/bin in its library-path.
C14_ScenarioS2AsApp ==
    (S2Workspace /\ PipelineRan) =>
        /\ S2Graph
        /\ AppHome \in DOMAIN asconfig
        /\ asconfig[AppHome]["type"] = "app"
        /\ "mainClass" \in DOMAIN asconfig[AppHome]
        /\ asconfig[AppHome]["mainClass"] = <<"M">>
        /\ Includes(asconfig[AppHome]["compilerOptions.library-path"], Join(LibHome, Bin))

\* C14: in scenario S2 the pipeline yields app -> [libA], the build list
\* [libA, app], and an asconfig.json for app with type "lib", no mainClass of
\* its own, the output bin/p.swc and the library-path [libA/bin]: m-app.xml
\* is named after no class, so the project has no retained descriptor.
C14_ScenarioS2AsLib ==
    (S2Workspace /\ PipelineRan) =>
        /\ S2Graph
        /\ AppHome \in DOMAIN asconfig
        /\ asconfig[AppHome]["type"] = "lib"
        /\ NoBaseGiven => "mainClass" \notin DOMAIN asconfig[AppHome]
        /\ asconfig[AppHome]["compilerOptions.output"] = Join(Bin, <<"p">> \o DotSwc)
        /\ asconfig[AppHome]["compilerOptions.library-path"] = <<Join(LibHome, Bin)>>

\* The pipeline has run over scenario S2 without a base and has written the
\* application's asconfig.json and .vscode/tasks.json.
C14_Witness ==
    /\ S2Workspace /\ PipelineRan /\ call.outcome = "returned"
    /\ NoBaseGiven
    /\ AppHome \in DOMAIN vscTasks
    /\ projects[1].known_descriptors = <<>>

\* writeConfig was the last stage and it wrote the configurations.
ConfigWritten == call.stage = "writeConfig" /\ call.outcome = "returned"

\* C15: when writeConfig is given no base, the asconfig.json of an app project
\* with a retained descriptor has the key application, whose value is the file
\* path of the first retained descriptor, and the asconfig.json of a lib
\* project has no such key.
C15_ApplicationDescriptor ==
    (ConfigWritten /\ call.args.base = <<>>) =>
        \A k \in 1..Len(projects) :
            LET home == projects[k].project_home_dir
            IN home \in DOMAIN asconfig =>
                   IF ProjectType(projects[k]) = "lib"
                   THEN "application" \notin DOMAIN asconfig[home]
                   ELSE projects[k].known_descriptors # <<>> =>
                            /\ "application" \in DOMAIN asconfig[home]
                            /\ asconfig[home]["application"] =
                                   projects[k].known_descriptors[1].filePath

\* The keys of asconfig.json the emitter owns
OwnedKeys ==
    {"config", "type", "mainClass", "copySourcePathAssets", "compilerOptions.debug",
     "compilerOptions.library-path", "compilerOptions.output",
     "compilerOptions.source-path", "compilerOptions.include-sources"}

\* C16: in every asconfig.json that writeConfig has written from a base, no
\* owned key has the value the base gave it, and every key of the base that
\* the emitter does not own is there with the value of the base.
C16_OwnedKeysOverwritten ==
    ConfigWritten =>
        \A home \in DOMAIN asconfig :
            LET base == call.args.base
            IN /\ \A key \in DOMAIN base \cap OwnedKeys :
                      ~(key \in DOMAIN asconfig[home] /\ asconfig[home][key] = base[key])
               /\ \A key \in DOMAIN base \ (OwnedKeys \cup {"application"}) :
                      key \in DOMAIN asconfig[home] /\ asconfig[home][key] = base[key]

----------------------------------------------------------------------------
(* The editor task files against tasks.json, for stating the properties. *)

\* writeVSCTasks was the last stage and it went through tasks.json.
TasksEmitted == call.stage = "writeVSCTasks" /\ call.outcome = "returned"

OwnedByMascot(t) == StartsWith(t.label, MascotPrefix)
MascotTasks(list) == SelectSeq(list, OwnedByMascot)
OtherTasks(list) == SelectSeq(list, LAMBDA t : ~OwnedByMascot(t))

\* The file project path had when the call started, if any
ExistingTasks(path) ==
    IF path \in DOMAIN call.args.existing THEN call.args.existing[path].tasks ELSE <<>>

\* The call has written the file of this entry of tasks.json.
Rewritten(entry) ==
    /\ isDirectory(entry.project_path)
    /\ call.args.purge \/ MascotTasks(ExistingTasks(entry.project_path)) = <<>>

\* The entries of the project's list except the last
DependenciesOf(entry) ==
    IF entry.project_build_tasks = <<>> THEN <<>>
    ELSE SubSeq(entry.project_build_tasks, 1, Len(entry.project_build_tasks) - 1)

\* The MASCOT tasks of one mode in the project's file, in file order
Chain(entry, debug) ==
    SelectSeq(MascotTasks(vscTasks[entry.project_path].tasks),
              LAMBDA t : IF t.type = "shell" THEN t.args[5] = DebugFlag(debug)
                         ELSE t.debug = debug)

\* C17: in each mode the MASCOT tasks of a written file are one sub-task per
\* entry of the list except the last, in list order, followed by one master
\* task; the first task of the chain has no dependsOn and every later one,
\* the master included, depends on the task just before it.
C17_ChainedSubTasks ==
    TasksEmitted =>
        \A i \in 1..Len(tasks) : Rewritten(tasks[i]) =>
            \A debug \in BOOLEAN :
                LET list == DependenciesOf(tasks[i])
                    chain == Chain(tasks[i], debug)
                IN /\ Len(chain) = Len(list) + 1
                   /\ \A k \in 1..Len(list) :
                          /\ chain[k].type = "shell"
                          /\ chain[k].args[4] = list[k]
                   /\ chain[Len(chain)].type = "actionscript"
                   /\ "dependsOn" \notin DOMAIN chain[1]
                   /\ \A k \in 2..Len(chain) :
                          /\ "dependsOn" \in DOMAIN chain[k]
                          /\ chain[k].dependsOn = chain[k - 1].label
                   /\ \A j, k \in 1..Len(chain) : chain[j].label = chain[k].label => j = k

\* A project with two dependencies has been given its file: each mode has a
\* chain of two sub-tasks and the master.
C17_Witness ==
    /\ TasksEmitted
    /\ \E i \in 1..Len(tasks) :
           /\ Rewritten(tasks[i])
           /\ Len(tasks[i].project_build_tasks) = 3
           /\ Len(Chain(tasks[i], TRUE)) = 3
           /\ Len(Chain(tasks[i], FALSE)) = 3

WithDeps == <<" ", "(", "w", "i", "t", "h", " ", "d", "e", "p", "s", ")">>
NotNeeded == <<" ", "(", "n", "o", "t", " ", "n", "e", "e", "d", "e", "d", ")">>

\* The master tasks of one mode in the project's file
Masters(entry, debug) ==
    SelectSeq(vscTasks[entry.project_path].tasks,
              LAMBDA t : OwnedByMascot(t) /\ t.type = "actionscript" /\ t.debug = debug)

\* C18: a written file has exactly one master task in each mode, whatever the
\* list; its label ends with " (with deps)" iff the list has an entry besides
\* the last, with " (not needed)" iff the list in tasks.json is empty, and is
\* "MASCOT: compile <mode>" alone otherwise.
C18_MasterLabel ==
    TasksEmitted =>
        \A i \in 1..Len(tasks) : Rewritten(tasks[i]) =>
            \A debug \in BOOLEAN :
                LET masters == Masters(tasks[i], debug)
                    plain == MascotPrefix \o <<"c", "o", "m", "p", "i", "l", "e", " ">> \o
                             ModeName(debug)
                IN /\ Len(masters) = 1
                   /\ masters[1].asconfig = "asconfig.json"
                   /\ EndsWith(masters[1].label, WithDeps)
                          <=> DependenciesOf(tasks[i]) # <<>>
                   /\ EndsWith(masters[1].label, NotNeeded)
                          <=> tasks[i].project_build_tasks = <<>>
                   /\ (Len(tasks[i].project_build_tasks) = 1) => masters[1].label = plain

\* After the filter, the emitter has written the files of a project with
\* nothing to build, of one whose list is the project alone, and of one with a
\* dependency to build.
C18_Witness ==
    /\ TasksEmitted
    /\ \E i, j, k \in 1..Len(tasks) :
           /\ Rewritten(tasks[i]) /\ tasks[i].project_build_tasks = <<>>
           /\ Rewritten(tasks[j]) /\ Len(tasks[j].project_build_tasks) = 1
           /\ Rewritten(tasks[k]) /\ Len(tasks[k].project_build_tasks) = 2
           /\ Len(Masters(tasks[i], TRUE)) = 1

\* C19: for a project that had a .vscode/tasks.json, a call with purge leaves
\* the tasks that are not MASCOT's as they were and in their order, and the
\* MASCOT tasks of the file are the newly generated ones, none of the old;
\* a call without purge leaves a file that has a MASCOT task as it was.
C19_PurgeReplacesMascotTasksOnly ==
    TasksEmitted =>
        \A i \in 1..Len(tasks) :
            LET path == tasks[i].project_path
                old == ExistingTasks(path)
                new == vscTasks[path].tasks
                generated == 2 * (Len(DependenciesOf(tasks[i])) + 1)
            IN (path \in DOMAIN call.args.existing /\ isDirectory(path)) =>
                   IF call.args.purge
                   THEN /\ OtherTasks(new) = OtherTasks(old)
                        /\ Len(MascotTasks(new)) = generated
                        /\ new = OtherTasks(old) \o MascotTasks(new)
                        /\ \A k \in 1..Len(new) :
                               OwnedByMascot(new[k]) =>
                                   /\ new[k].type = "actionscript" => "asconfig" \in DOMAIN new[k]
                                   /\ new[k].type = "shell" => "args" \in DOMAIN new[k]
                   ELSE MascotTasks(old) # <<>> => vscTasks[path] = call.args.existing[path]

\* A file with two tasks of the user and a MASCOT task between them has been
\* purged and rewritten: the user's tasks come first, the new chains follow.
C19_Witness ==
    /\ TasksEmitted
    /\ call.args.purge
    /\ Home(1) \in DOMAIN call.args.existing
    /\ call.args.existing[Home(1)].tasks = <<LintTask, StaleTask, TestTask>>
    /\ Len(vscTasks[Home(1)].tasks) >= 4
    /\ SubSeq(vscTasks[Home(1)].tasks, 1, 2) = <<LintTask, TestTask>>

----------------------------------------------------------------------------
(* Stages and their cache files, for stating the properties. *)

\* The cache files a stage needs
Prerequisites(stage) ==
    CASE stage = "doDeepScan" -> {"projects.json"}
      [] stage = "manuallyAddDependencies" -> {"projects.json", "classes.json"}
      [] stage = "buildDependencies" -> {"classes.json", "projects.json"}
      [] stage = "makeBuildTasks" -> {"deps.json"}
      [] stage = "applyDirtinessFilter" -> {"projects.json", "deps.json", "tasks.json"}
      [] stage = "writeConfig" -> {"projects.json", "classes.json", "deps.json"}
      [] stage = "writeVSCSettings" -> {"projects.json"}
      [] stage = "writeVSCTasks" -> {"tasks.json"}
      [] OTHER -> {}

\* The step leaves the stage's own output artifact as it was
OutputKept(stage) ==
    CASE stage \in {"doDeepScan", "manuallyAddDependencies"} ->
             /\ ("classes.json" \in cache') = ("classes.json" \in cache)
             /\ UNCHANGED classes
      [] stage = "buildDependencies" ->
             /\ ("deps.json" \in cache') = ("deps.json" \in cache)
             /\ UNCHANGED deps
      [] stage \in {"makeBuildTasks", "applyDirtinessFilter"} ->
             /\ ("tasks.json" \in cache') = ("tasks.json" \in cache)
             /\ UNCHANGED tasks
      [] stage = "writeConfig" -> UNCHANGED asconfig
      [] stage = "writeVSCSettings" -> UNCHANGED vscSettings
      [] stage = "writeVSCTasks" -> UNCHANGED vscTasks
      [] OTHER -> TRUE

\* C20: a call of any of the eight stages made while one of the stage's
\* prerequisite cache files is absent appends an entry to problems.log and
\* returns without creating, deleting or modifying the stage's own output.
C20_MissingPrerequisiteLogged ==
    [][ (~(Prerequisites(call'.stage) \subseteq cache)) =>
            /\ Len(problems') = Len(problems) + 1
            /\ OutputKept(call'.stage) ]_vars

----------------------------------------------------------------------------
(* problems.log over a sequence of stage calls *)

\* Is s an initial part of t?
IsPrefix(s, t) == Len(s) <= Len(t) /\ SubSeq(t, 1, Len(s)) = s

\* C21: problems.log is append-only: whatever stage is called after whatever
\* other calls, every entry that was in the log before the call is still in
\* it, at its place, after the call.
C21_ProblemsAppendOnly == [][IsPrefix(problems, problems')]_vars

----------------------------------------------------------------------------
(* The run of the command line, for stating the properties. *)

StagesInOrder ==
    <<"doShallowScan", "doDeepScan", "manuallyAddDependencies", "buildDependencies",
      "writeConfig", "writeVSCSettings", "makeBuildTasks", "applyDirtinessFilter",
      "writeVSCTasks">>

\* The stages the run is to make, given its command line
StagesExpected ==
    SelectSeq(StagesInOrder,
              LAMBDA stage :
                  /\ stage = "manuallyAddDependencies" =>
                         inputData.g_manual_dependencies # <<>>
                  /\ stage = "applyDirtinessFilter" => ~inputData.g_rebuild)

\* The projects of the sub-tasks of one mode in the file of the entry
ChainProjects(entry, debug) ==
    {t.args[4] : t \in {u \in Elems(Chain(entry, debug)) : u.type = "shell"}}

\* With the override, the file of every project builds all the projects the
\* project depends on, directly or not, and no master task is "(not needed)".
RebuildsAll ==
    (TasksEmitted /\ inputData.g_rebuild) =>
        \A k \in 1..Len(projects) :
            LET home == projects[k].project_home_dir
            IN \E i \in 1..Len(tasks) :
                   /\ tasks[i].project_path = home
                   /\ home \in DOMAIN vscTasks
                   /\ \A debug \in BOOLEAN :
                          /\ ChainProjects(tasks[i], debug) = Reachable(deps, home) \ {home}
                          /\ \A m \in 1..Len(Masters(tasks[i], debug)) :
                                 ~EndsWith(Masters(tasks[i], debug)[m].label, NotNeeded)

\* C22: the n-th stage call of a run of cliMain with generate is the n-th of
\* shallow scan, deep scan, manual patch (only if amendments were given),
\* buildDependencies, writeConfig, writeVSCSettings, makeBuildTasks,
\* dirtiness filter (only if g_rebuild was not given), writeVSCTasks; and
\* with g_rebuild the task chain emitted for every project covers all the
\* projects it depends on, changed or not, with no master task labelled
\* "(not needed)".
C22_StageOrderAndRebuild ==
    [][ call'.n = call.n + 1 =>
            /\ call'.n <= Len(StagesExpected)
            /\ call'.stage = StagesExpected[call'.n]
            /\ RebuildsAll' ]_vars

\* A run with g_rebuild and manual dependencies has come to its end, in eight
\* calls; p and the projects it depends on were all unchanged, and the file
\* of p builds q and r before p.
C22_Witness ==
    /\ TasksEmitted
    /\ inputData.g_rebuild
    /\ call.n = 8
    /\ call.amendments # <<>>
    /\ \A k \in 1..Len(projects) : ~projects[k].is_dirty
    /\ \E i \in 1..Len(tasks) :
           /\ tasks[i].project_path = AppHome
           /\ ChainProjects(tasks[i], TRUE) = {LibHome, ThirdHome}

----------------------------------------------------------------------------
(* Fully qualified instantiations in classes.json *)

\* The couplings of kind fqn_instantiation of one analyzed class, in order
Instantiated(entry) ==
    SelectSeq(entry.class_couplings, LAMBDA c : c.coupling_type = "fqn_instantiation")

\* C23: after doDeepScan, an analyzed class has one fqn_instantiation coupling
\* for each "new P.C" of its file, in textual order: its package is P (the
\* text before the last dot), its name is C (the text after it), and its
\* expected relative path is P with every dot replaced by a slash, then "/",
\* C and ".as".
C23_QualifiedInstantiation ==
    Scanned =>
        \A e \in 1..Len(classes) :
            LET news == files[classes[e].analyzed_class.file_path].instantiations
                found == Instantiated(classes[e])
            IN /\ Len(found) = Len(news)
               /\ \A k \in 1..Len(news) :
                      LET dot == LastIndexOf(news[k], ".")
                          P == SubSeq(news[k], 1, dot - 1)
                          C == SubSeq(news[k], dot + 1, Len(news[k]))
                      IN /\ found[k].package = P
                         /\ found[k].name = C
                         /\ found[k].expected_relative_path =
                                ReplaceAll(P, ".", "/") \o <<"/">> \o C \o DotAs

----------------------------------------------------------------------------
(* What the emitter pops *)

\* C24: when writeVSCTasks has gone through tasks.json, written by
\* makeBuildTasks or rewritten by applyDirtinessFilter, every list that is
\* not empty ends with the project of its entry, and the sub-tasks of a
\* written file build every other project of the list: the pop takes the
\* project itself and never a dependency.
C24_PopTakesRoot ==
    TasksEmitted =>
        \A i \in 1..Len(tasks) :
            LET list == tasks[i].project_build_tasks
            IN list # <<>> =>
                   /\ list[Len(list)] = tasks[i].project_path
                   /\ Rewritten(tasks[i]) =>
                          \A debug \in BOOLEAN :
                              ChainProjects(tasks[i], debug) =
                                  Elems(list) \ {tasks[i].project_path}

\* The filter has taken the unchanged q out of the list of p and left the
\* changed r in it; the emitter has written the file of p, with a sub-task
\* for r.
C24_Witness ==
    /\ TasksEmitted
    /\ \E i \in 1..Len(tasks) :
           /\ tasks[i].project_path = Home(1)
           /\ tasks[i].project_build_tasks = <<Home(3), Home(1)>>
           /\ Reachable(deps, Home(1)) = {Home(1), Home(2), Home(3)}
           /\ Rewritten(tasks[i])
           /\ ChainProjects(tasks[i], TRUE) = {Home(3)}

----------------------------------------------------------------------------
(* Projects inside projects *)

\* C25: no project of the catalog doShallowScan writes has its home directory
\* below the home directory of another one.
C25_NoNestedProjects ==
    ShallowScanned =>
        \A P, Q \in EmittedHomes : P # Q => ~Below(Q, P)

----------------------------------------------------------------------------
(* Descriptors and main classes *)

\* C26: when writeConfig has written the configurations, the related class of
\* every descriptor of the catalog is a class file named as the descriptor
\* (M.as for M-app.xml), and the mainClass of an app project with a
\* descriptor is the name of its first descriptor.
C26_MainClassIsDescriptorName ==
    ConfigWritten =>
        \A k \in 1..Len(projects) :
            LET home == projects[k].project_home_dir
                known == projects[k].known_descriptors
            IN /\ \A d \in 1..Len(known) :
                      BeforeFirstDot(BaseName(known[d].related_class.file_path)) =
                          known[d].name
               /\ (ProjectType(projects[k]) = "app" /\ known # <<>>
                       /\ home \in DOMAIN asconfig) =>
                      /\ "mainClass" \in DOMAIN asconfig[home]
                      /\ asconfig[home]["mainClass"] = known[1].name

----------------------------------------------------------------------------
(* One node, one task entry and one configuration per project *)

NodesOf(home) == {k \in 1..Len(deps) : deps[k].project_path = home}
TasksOf(home) == {k \in 1..Len(tasks) : tasks[k].project_path = home}

\* C27: once doShallowScan, doDeepScan, buildDependencies and makeBuildTasks
\* have run in that order (and writeConfig after buildDependencies), every
\* project of projects.json has exactly one node in deps.json, exactly one
\* entry in tasks.json, and an asconfig.json.
C27_OnePerProject ==
    (call.stage = "makeBuildTasks" /\ call.outcome = "returned" /\ call.n = 6) =>
        \A k \in 1..Len(projects) :
            LET home == projects[k].project_home_dir
            IN /\ Cardinality(NodesOf(home)) = 1
               /\ Cardinality(TasksOf(home)) = 1
               /\ home \in DOMAIN asconfig


\* C28: every path in a project_build_tasks list written by makeBuildTasks is
\* the project_path of a node of deps.json; a dependency without a node is not
\* placed in a build list.
C28_BuildListsHoldNodesOnly ==
    Planned =>
        \A i \in 1..Len(tasks) :
            \A j \in 1..Len(tasks[i].project_build_tasks) :
                tasks[i].project_build_tasks[j] \in NodePaths(deps)


\* C29: applyDirtinessFilter is idempotent: run a second time on the
\* tasks.json it wrote, with projects.json and deps.json as they were, it
\* leaves every project_build_tasks list and every num_tasks as they are.
C29_FilterIdempotent ==
    (Filtered /\ call.repeat >= 2) => tasks = before.tasks

\* The second run of the filter has returned after a first run that had taken
\* entries out of the planner's lists and had left some in.
C29_Witness ==
    /\ Filtered /\ call.repeat = 2 /\ call.n = 3
    /\ tasks = before.tasks
    /\ tasks # buildTasksFrom(deps, 1, [tasks |-> <<>>, probs |-> <<>>, thrown |-> FALSE]).tasks
    /\ \E i \in 1..Len(tasks) : tasks[i].num_tasks > 0
    /\ \E i \in 1..Len(tasks) : tasks[i].num_tasks = 0


\* One call of a cache-writing stage with replace = false while its output
\* file exists
CalledOverOutput ==
    \/ "projects.json" \in cache /\ DoShallowScan(FALSE)
    \/ "classes.json" \in cache /\ DoDeepScan(FALSE)
    \/ "deps.json" \in cache /\ BuildDependencies(FALSE)
    \/ "tasks.json" \in cache /\ MakeBuildTasks(FALSE)

\* The cache artifacts and every emitted file are as they were
ArtifactsKept ==
    UNCHANGED <<cache, projects, classes, deps, tasks, asconfig, vscSettings, vscTasks,
                dirs, files>>

\* The call is one of buildDependencies or makeBuildTasks that finds a
\* required input file missing
InputMissing ==
    \/ /\ call'.stage = "buildDependencies"
       /\ ~({"classes.json", "projects.json"} \subseteq cache)
    \/ /\ call'.stage = "makeBuildTasks"
       /\ "deps.json" \notin cache

\* C30: a cache-writing stage called with replace = false while its output
\* file exists changes no file: the cache artifacts and problems.log are as
\* they were.
C30_SkipChangesNoFile ==
    [][CalledOverOutput => (ArtifactsKept /\ problems' = problems)]_vars

\* C30 amended: such a call changes no cache artifact and no emitted file; it
\* leaves problems.log as it was when its required input files exist, and
\* appends one entry to it when buildDependencies or makeBuildTasks finds one
\* missing.
C30_SkipKeepsArtifacts ==
    [][CalledOverOutput =>
          /\ ArtifactsKept
          /\ IF InputMissing THEN Len(problems') = Len(problems) + 1 /\ IsPrefix(problems, problems')
             ELSE problems' = problems]_vars

\* buildDependencies has skipped over a deps.json that is older than the
\* classes.json it would have read.
C30_Witness ==
    /\ call.stage = "buildDependencies" /\ call.outcome = "skipped"
    /\ classes # <<>>
    /\ deps # BuiltFrom(classes)
    /\ problems = before.problems

====
